---- MODULE Spec2Model ----
(***************************************************************************)
(* CubeVision: the cube state manager (CubeStateManager), its face         *)
(* rotations, the colour-count validator (validateCubeState), the          *)
(* functions of cubeUtils and the solvers.                                 *)
(*                                                                         *)
(* JavaScript arrays are mutable and shared by reference, so the model     *)
(* keeps a heap of arrays; a CubeColors object is a record of heap         *)
(* addresses.  Array index i of the source is position i+1 of a sequence.  *)
(***************************************************************************)
EXTENDS Integers, Sequences, FiniteSets, TLC

VARIABLES
    heap,          \* sequence of arrays; an address is an index into it
    initialState,  \* CubeStateManager.initialState (record of addresses)
    currentState,  \* CubeStateManager.currentState (record of addresses)
    held,          \* objects callers hold a reference to, with the values seen when handed out
    log,           \* moves applied since construction or the last reset
    trail,         \* values of currentState: trail[k+1] is the value after k moves of log
    moves,         \* number of applyMove() calls so far
    resets,        \* number of reset() calls so far
    input,         \* argument of the pure function under call
    output,        \* its result
    store,         \* the state object of the useCube store
    ui,            \* the state of the mounted components and their pending timer
    clock,         \* the value Date.now() returns
    hist           \* what was done so far: the saveCube calls with the id returned and the
                   \* colors saved, or the faces recolored on the detection screen

vars == <<heap, initialState, currentState, held, log, trail, moves, resets, input, output,
          store, ui, clock, hist>>

appVars == <<store, ui, clock, hist>>

mgrVars == <<heap, initialState, currentState, held, log, trail, moves, resets>>

(***************************************************************************)
(* Bounds of the exploration                                               *)
(***************************************************************************)
MaxRepeat == 4     \* a run of quarter turns of one face has at most this many moves
MaxUndo == 2       \* a sequence followed by its inverse: length of the sequence
MaxShort == 3      \* applyMove and reset calls of a manager that is reset
MaxEdits == 1      \* stickers overwritten in a validator input
MaxCalls == 2      \* successive rotateFace calls on one array
MaxAlg == 2        \* moves in a sequence given to algorithmToNotation or optimizeMoves
MaxChars == 4      \* characters in a string given to parseNotation
MaxSeq == 4        \* moves in a sequence of turns of two faces
MaxClock == 1      \* milliseconds that pass while the store is called
MaxSaves == 2      \* saveCube calls
MaxPending == 1    \* detection requests and auto-advance timers pending at a time
MaxChanges == 1    \* stickers recolored on the detection screen

(***************************************************************************)
(* Data                                                                    *)
(***************************************************************************)
FaceKeys == <<"front", "back", "left", "right", "top", "bottom">>

FaceKeySet == {FaceKeys[i] : i \in 1..6}

Faces == {"R", "L", "U", "D", "F", "B"}

Rotations == {1, 2, 3}

Move == [face : Faces, rotation : Rotations]

standardColors == <<"white", "yellow", "red", "orange", "green", "blue">>

Null == 0

Undefined == "undefined"

Abs(n) == IF n < 0 THEN -n ELSE n

\* face[i] read in JavaScript: out of range gives undefined
Rd(h, a, i) == IF i < Len(h[a]) THEN h[a][i + 1] ELSE Undefined

\* face[i] = v in JavaScript: writing past the end extends the array
Wr(h, a, i, v) ==
    IF i < Len(h[a])
    THEN [h EXCEPT ![a][i + 1] = v]
    ELSE [h EXCEPT ![a] = h[a] \o [k \in 1..(i - Len(h[a])) |-> Undefined] \o <<v>>]

\* dst[di] = src[si]
Cp(h, dst, di, src, si) == Wr(h, dst, di, Rd(h, src, si))

\* the sticker values of a CubeColors object
Value(h, obj) == [k \in FaceKeySet |-> IF obj[k] = Null THEN <<>> ELSE h[obj[k]]]

(***************************************************************************)
(* CubeStateManager: the face rotations                                    *)
(***************************************************************************)
\* faulty variant: face[2] = temp[2] in the clockwise branch
rotateFaceTypo(h, face, clockwise) ==
    IF face = Null \/ Len(h[face]) # 9 THEN h
    ELSE LET temp == h[face]
         IN IF clockwise
            THEN [h EXCEPT ![face] = <<temp[7], temp[4], temp[3],
                                       temp[8], temp[5], temp[2],
                                       temp[9], temp[6], temp[3]>>]
            ELSE [h EXCEPT ![face] = <<temp[3], temp[6], temp[9],
                                       temp[2], temp[5], temp[8],
                                       temp[1], temp[4], temp[7]>>]

\* faulty variant: the two branches exchanged
rotateFaceSwapped(h, face, clockwise) ==
    IF face = Null \/ Len(h[face]) # 9 THEN h
    ELSE LET temp == h[face]
         IN IF ~clockwise
            THEN [h EXCEPT ![face] = <<temp[7], temp[4], temp[1],
                                       temp[8], temp[5], temp[2],
                                       temp[9], temp[6], temp[3]>>]
            ELSE [h EXCEPT ![face] = <<temp[3], temp[6], temp[9],
                                       temp[2], temp[5], temp[8],
                                       temp[1], temp[4], temp[7]>>]

\* rotateFace: turn the 9 stickers of one face in place
rotateFace(h, face, clockwise) ==
    IF face = Null \/ Len(h[face]) # 9 THEN h
    ELSE LET temp == h[face]
         IN IF clockwise
            THEN [h EXCEPT ![face] = <<temp[7], temp[4], temp[1],
                                       temp[8], temp[5], temp[2],
                                       temp[9], temp[6], temp[3]>>]
            ELSE [h EXCEPT ![face] = <<temp[3], temp[6], temp[9],
                                       temp[2], temp[5], temp[8],
                                       temp[1], temp[4], temp[7]>>]

\* faulty variant: the strips cycle the other way round
RightBodyReversed(h, state, clockwise) ==
    LET h0 == rotateFace(h, state.right, clockwise)
        temp == <<Rd(h0, state.front, 2), Rd(h0, state.front, 5), Rd(h0, state.front, 8)>>
    IN IF state.front # Null /\ state.top # Null /\ state.back # Null /\ state.bottom # Null
       THEN IF ~clockwise
            THEN LET h1 == Cp(h0, state.front, 2, state.bottom, 2)
                     h2 == Cp(h1, state.front, 5, state.bottom, 5)
                     h3 == Cp(h2, state.front, 8, state.bottom, 8)
                     h4 == Cp(h3, state.bottom, 2, state.back, 6)
                     h5 == Cp(h4, state.bottom, 5, state.back, 3)
                     h6 == Cp(h5, state.bottom, 8, state.back, 0)
                     h7 == Cp(h6, state.back, 6, state.top, 2)
                     h8 == Cp(h7, state.back, 3, state.top, 5)
                     h9 == Cp(h8, state.back, 0, state.top, 8)
                     h10 == Wr(h9, state.top, 2, temp[1])
                     h11 == Wr(h10, state.top, 5, temp[2])
                     h12 == Wr(h11, state.top, 8, temp[3])
                 IN h12
            ELSE LET h1 == Cp(h0, state.front, 2, state.top, 2)
                     h2 == Cp(h1, state.front, 5, state.top, 5)
                     h3 == Cp(h2, state.front, 8, state.top, 8)
                     h4 == Cp(h3, state.top, 2, state.back, 6)
                     h5 == Cp(h4, state.top, 5, state.back, 3)
                     h6 == Cp(h5, state.top, 8, state.back, 0)
                     h7 == Cp(h6, state.back, 6, state.bottom, 2)
                     h8 == Cp(h7, state.back, 3, state.bottom, 5)
                     h9 == Cp(h8, state.back, 0, state.bottom, 8)
                     h10 == Wr(h9, state.bottom, 2, temp[1])
                     h11 == Wr(h10, state.bottom, 5, temp[2])
                     h12 == Wr(h11, state.bottom, 8, temp[3])
                 IN h12
       ELSE h0

\* one iteration of the loop of rotateRightFace
RightBody(h, state, clockwise) ==
    LET h0 == rotateFace(h, state.right, clockwise)
        temp == <<Rd(h0, state.front, 2), Rd(h0, state.front, 5), Rd(h0, state.front, 8)>>
    IN IF state.front # Null /\ state.top # Null /\ state.back # Null /\ state.bottom # Null
       THEN IF clockwise
            THEN LET h1 == Cp(h0, state.front, 2, state.bottom, 2)
                     h2 == Cp(h1, state.front, 5, state.bottom, 5)
                     h3 == Cp(h2, state.front, 8, state.bottom, 8)
                     h4 == Cp(h3, state.bottom, 2, state.back, 6)
                     h5 == Cp(h4, state.bottom, 5, state.back, 3)
                     h6 == Cp(h5, state.bottom, 8, state.back, 0)
                     h7 == Cp(h6, state.back, 6, state.top, 2)
                     h8 == Cp(h7, state.back, 3, state.top, 5)
                     h9 == Cp(h8, state.back, 0, state.top, 8)
                     h10 == Wr(h9, state.top, 2, temp[1])
                     h11 == Wr(h10, state.top, 5, temp[2])
                     h12 == Wr(h11, state.top, 8, temp[3])
                 IN h12
            ELSE LET h1 == Cp(h0, state.front, 2, state.top, 2)
                     h2 == Cp(h1, state.front, 5, state.top, 5)
                     h3 == Cp(h2, state.front, 8, state.top, 8)
                     h4 == Cp(h3, state.top, 2, state.back, 6)
                     h5 == Cp(h4, state.top, 5, state.back, 3)
                     h6 == Cp(h5, state.top, 8, state.back, 0)
                     h7 == Cp(h6, state.back, 6, state.bottom, 2)
                     h8 == Cp(h7, state.back, 3, state.bottom, 5)
                     h9 == Cp(h8, state.back, 0, state.bottom, 8)
                     h10 == Wr(h9, state.bottom, 2, temp[1])
                     h11 == Wr(h10, state.bottom, 5, temp[2])
                     h12 == Wr(h11, state.bottom, 8, temp[3])
                 IN h12
       ELSE h0

\* for (let i = 0; i < times; i++): the heap each iteration starts from is
\* computed before the next iteration begins (an empty heap holds no face to turn)
RECURSIVE RightLoop(_, _, _, _)
RightLoop(h, state, clockwise, times) ==
    IF times = 0 \/ h = <<>> THEN h
    ELSE RightLoop(RightBody(h, state, clockwise), state, clockwise, times - 1)

rotateRightFace(h, state, rotation) == RightLoop(h, state, rotation > 0, Abs(rotation))

\* one iteration of the loop of rotateLeftFace
LeftBody(h, state, clockwise) ==
    LET h0 == rotateFace(h, state.left, clockwise)
        temp == <<Rd(h0, state.front, 0), Rd(h0, state.front, 3), Rd(h0, state.front, 6)>>
    IN IF state.front # Null /\ state.top # Null /\ state.back # Null /\ state.bottom # Null
       THEN IF clockwise
            THEN LET h1 == Cp(h0, state.front, 0, state.top, 0)
                     h2 == Cp(h1, state.front, 3, state.top, 3)
                     h3 == Cp(h2, state.front, 6, state.top, 6)
                     h4 == Cp(h3, state.top, 0, state.back, 8)
                     h5 == Cp(h4, state.top, 3, state.back, 5)
                     h6 == Cp(h5, state.top, 6, state.back, 2)
                     h7 == Cp(h6, state.back, 8, state.bottom, 0)
                     h8 == Cp(h7, state.back, 5, state.bottom, 3)
                     h9 == Cp(h8, state.back, 2, state.bottom, 6)
                     h10 == Wr(h9, state.bottom, 0, temp[1])
                     h11 == Wr(h10, state.bottom, 3, temp[2])
                     h12 == Wr(h11, state.bottom, 6, temp[3])
                 IN h12
            ELSE h0
       ELSE h0

RECURSIVE LeftLoop(_, _, _, _)
LeftLoop(h, state, clockwise, times) ==
    IF times = 0 \/ h = <<>> THEN h
    ELSE LeftLoop(LeftBody(h, state, clockwise), state, clockwise, times - 1)

\* faulty variant: rotation 3 is done as one counter-clockwise turn
rotateLeftFaceCcw(h, state, rotation) ==
    LeftLoop(h, state, rotation # 3, IF rotation = 3 THEN 1 ELSE Abs(rotation))

rotateLeftFace(h, state, rotation) == LeftLoop(h, state, rotation > 0, Abs(rotation))

\* faulty variant: the left strip is filled from the front face after it was overwritten
TopBodyLateRead(h, state, clockwise) ==
    LET h0 == rotateFace(h, state.top, clockwise)
        temp == <<Rd(h0, state.front, 0), Rd(h0, state.front, 1), Rd(h0, state.front, 2)>>
    IN IF state.front # Null /\ state.left # Null /\ state.back # Null /\ state.right # Null
       THEN IF clockwise
            THEN LET h1 == Cp(h0, state.front, 0, state.right, 0)
                     h2 == Cp(h1, state.front, 1, state.right, 1)
                     h3 == Cp(h2, state.front, 2, state.right, 2)
                     h4 == Cp(h3, state.right, 0, state.back, 0)
                     h5 == Cp(h4, state.right, 1, state.back, 1)
                     h6 == Cp(h5, state.right, 2, state.back, 2)
                     h7 == Cp(h6, state.back, 0, state.left, 0)
                     h8 == Cp(h7, state.back, 1, state.left, 1)
                     h9 == Cp(h8, state.back, 2, state.left, 2)
                     h10 == Cp(h9, state.left, 0, state.front, 0)
                     h11 == Cp(h10, state.left, 1, state.front, 1)
                     h12 == Cp(h11, state.left, 2, state.front, 2)
                 IN h12
            ELSE h0
       ELSE h0

\* one iteration of the loop of rotateTopFace
TopBody(h, state, clockwise) ==
    LET h0 == rotateFace(h, state.top, clockwise)
        temp == <<Rd(h0, state.front, 0), Rd(h0, state.front, 1), Rd(h0, state.front, 2)>>
    IN IF state.front # Null /\ state.left # Null /\ state.back # Null /\ state.right # Null
       THEN IF clockwise
            THEN LET h1 == Cp(h0, state.front, 0, state.right, 0)
                     h2 == Cp(h1, state.front, 1, state.right, 1)
                     h3 == Cp(h2, state.front, 2, state.right, 2)
                     h4 == Cp(h3, state.right, 0, state.back, 0)
                     h5 == Cp(h4, state.right, 1, state.back, 1)
                     h6 == Cp(h5, state.right, 2, state.back, 2)
                     h7 == Cp(h6, state.back, 0, state.left, 0)
                     h8 == Cp(h7, state.back, 1, state.left, 1)
                     h9 == Cp(h8, state.back, 2, state.left, 2)
                     h10 == Wr(h9, state.left, 0, temp[1])
                     h11 == Wr(h10, state.left, 1, temp[2])
                     h12 == Wr(h11, state.left, 2, temp[3])
                 IN h12
            ELSE h0
       ELSE h0

RECURSIVE TopLoop(_, _, _, _)
TopLoop(h, state, clockwise, times) ==
    IF times = 0 \/ h = <<>> THEN h
    ELSE TopLoop(TopBody(h, state, clockwise), state, clockwise, times - 1)

rotateTopFace(h, state, rotation) == TopLoop(h, state, rotation > 0, Abs(rotation))

\* one iteration of the loop of rotateBottomFace
BottomBody(h, state, clockwise) ==
    LET h0 == rotateFace(h, state.bottom, clockwise)
        temp == <<Rd(h0, state.front, 6), Rd(h0, state.front, 7), Rd(h0, state.front, 8)>>
    IN IF state.front # Null /\ state.left # Null /\ state.back # Null /\ state.right # Null
       THEN IF clockwise
            THEN LET h1 == Cp(h0, state.front, 6, state.left, 6)
                     h2 == Cp(h1, state.front, 7, state.left, 7)
                     h3 == Cp(h2, state.front, 8, state.left, 8)
                     h4 == Cp(h3, state.left, 6, state.back, 6)
                     h5 == Cp(h4, state.left, 7, state.back, 7)
                     h6 == Cp(h5, state.left, 8, state.back, 8)
                     h7 == Cp(h6, state.back, 6, state.right, 6)
                     h8 == Cp(h7, state.back, 7, state.right, 7)
                     h9 == Cp(h8, state.back, 8, state.right, 8)
                     h10 == Wr(h9, state.right, 6, temp[1])
                     h11 == Wr(h10, state.right, 7, temp[2])
                     h12 == Wr(h11, state.right, 8, temp[3])
                 IN h12
            ELSE h0
       ELSE h0

RECURSIVE BottomLoop(_, _, _, _)
BottomLoop(h, state, clockwise, times) ==
    IF times = 0 \/ h = <<>> THEN h
    ELSE BottomLoop(BottomBody(h, state, clockwise), state, clockwise, times - 1)

rotateBottomFace(h, state, rotation) == BottomLoop(h, state, rotation > 0, Abs(rotation))

\* one iteration of the loop of rotateFrontFace
FrontBody(h, state, clockwise) ==
    LET h0 == rotateFace(h, state.front, clockwise)
        temp == <<Rd(h0, state.top, 6), Rd(h0, state.top, 7), Rd(h0, state.top, 8)>>
    IN IF state.top # Null /\ state.left # Null /\ state.bottom # Null /\ state.right # Null
       THEN IF clockwise
            THEN LET h1 == Cp(h0, state.top, 6, state.left, 8)
                     h2 == Cp(h1, state.top, 7, state.left, 5)
                     h3 == Cp(h2, state.top, 8, state.left, 2)
                     h4 == Cp(h3, state.left, 8, state.bottom, 2)
                     h5 == Cp(h4, state.left, 5, state.bottom, 1)
                     h6 == Cp(h5, state.left, 2, state.bottom, 0)
                     h7 == Cp(h6, state.bottom, 2, state.right, 0)
                     h8 == Cp(h7, state.bottom, 1, state.right, 3)
                     h9 == Cp(h8, state.bottom, 0, state.right, 6)
                     h10 == Wr(h9, state.right, 0, temp[1])
                     h11 == Wr(h10, state.right, 3, temp[2])
                     h12 == Wr(h11, state.right, 6, temp[3])
                 IN h12
            ELSE h0
       ELSE h0

RECURSIVE FrontLoop(_, _, _, _)
FrontLoop(h, state, clockwise, times) ==
    IF times = 0 \/ h = <<>> THEN h
    ELSE FrontLoop(FrontBody(h, state, clockwise), state, clockwise, times - 1)

\* faulty variant: the loop runs once whatever the rotation
rotateFrontFaceOnce(h, state, rotation) == FrontLoop(h, state, rotation > 0, 1)

rotateFrontFace(h, state, rotation) == FrontLoop(h, state, rotation > 0, Abs(rotation))

\* faulty variant: the strip taken from the top face is written to the left face unreversed
BackBodyMirrored(h, state, clockwise) ==
    LET h0 == rotateFace(h, state.back, clockwise)
        temp == <<Rd(h0, state.top, 0), Rd(h0, state.top, 1), Rd(h0, state.top, 2)>>
    IN IF state.top # Null /\ state.left # Null /\ state.bottom # Null /\ state.right # Null
       THEN IF clockwise
            THEN LET h1 == Cp(h0, state.top, 0, state.right, 2)
                     h2 == Cp(h1, state.top, 1, state.right, 5)
                     h3 == Cp(h2, state.top, 2, state.right, 8)
                     h4 == Cp(h3, state.right, 2, state.bottom, 8)
                     h5 == Cp(h4, state.right, 5, state.bottom, 7)
                     h6 == Cp(h5, state.right, 8, state.bottom, 6)
                     h7 == Cp(h6, state.bottom, 8, state.left, 6)
                     h8 == Cp(h7, state.bottom, 7, state.left, 3)
                     h9 == Cp(h8, state.bottom, 6, state.left, 0)
                     h10 == Wr(h9, state.left, 6, temp[3])
                     h11 == Wr(h10, state.left, 3, temp[2])
                     h12 == Wr(h11, state.left, 0, temp[1])
                 IN h12
            ELSE h0
       ELSE h0

\* one iteration of the loop of rotateBackFace
BackBody(h, state, clockwise) ==
    LET h0 == rotateFace(h, state.back, clockwise)
        temp == <<Rd(h0, state.top, 0), Rd(h0, state.top, 1), Rd(h0, state.top, 2)>>
    IN IF state.top # Null /\ state.left # Null /\ state.bottom # Null /\ state.right # Null
       THEN IF clockwise
            THEN LET h1 == Cp(h0, state.top, 0, state.right, 2)
                     h2 == Cp(h1, state.top, 1, state.right, 5)
                     h3 == Cp(h2, state.top, 2, state.right, 8)
                     h4 == Cp(h3, state.right, 2, state.bottom, 8)
                     h5 == Cp(h4, state.right, 5, state.bottom, 7)
                     h6 == Cp(h5, state.right, 8, state.bottom, 6)
                     h7 == Cp(h6, state.bottom, 8, state.left, 6)
                     h8 == Cp(h7, state.bottom, 7, state.left, 3)
                     h9 == Cp(h8, state.bottom, 6, state.left, 0)
                     h10 == Wr(h9, state.left, 6, temp[1])
                     h11 == Wr(h10, state.left, 3, temp[2])
                     h12 == Wr(h11, state.left, 0, temp[3])
                 IN h12
            ELSE h0
       ELSE h0

RECURSIVE BackLoop(_, _, _, _)
BackLoop(h, state, clockwise, times) ==
    IF times = 0 \/ h = <<>> THEN h
    ELSE BackLoop(BackBody(h, state, clockwise), state, clockwise, times - 1)

rotateBackFace(h, state, rotation) == BackLoop(h, state, rotation > 0, Abs(rotation))

\* faulty variant: newState shares the arrays of state
CopyFacesShallow(h, state) == [heap |-> h, state |-> state]

\* faulty variant: the front face is left out of the copy
CopyFacesFrontShared(h, state) ==
    [heap  |-> h \o [i \in 1..6 |-> IF state[FaceKeys[i]] = Null THEN <<>>
                                    ELSE h[state[FaceKeys[i]]]],
     state |-> [k \in FaceKeySet |->
                   IF k = "front" THEN state[k]
                   ELSE Len(h) + (CHOOSE i \in 1..6 : FaceKeys[i] = k)]]

\* the "deep copy" at the head of performMove: six new arrays
CopyFaces(h, state) ==
    [heap  |-> h \o [i \in 1..6 |-> IF state[FaceKeys[i]] = Null THEN <<>>
                                    ELSE h[state[FaceKeys[i]]]],
     state |-> [k \in FaceKeySet |->
                   Len(h) + (CHOOSE i \in 1..6 : FaceKeys[i] = k)]]

\* faulty variant: the cases 'U' and 'D' call each other's helper
performMoveSwapped(h, state, move) ==
    LET c == CopyFaces(h, state)
        newState == c.state
        h1 == c.heap
    IN [heap  |-> CASE move.face = "R" -> rotateRightFace(h1, newState, move.rotation)
                    [] move.face = "L" -> rotateLeftFace(h1, newState, move.rotation)
                    [] move.face = "U" -> rotateBottomFace(h1, newState, move.rotation)
                    [] move.face = "D" -> rotateTopFace(h1, newState, move.rotation)
                    [] move.face = "F" -> rotateFrontFace(h1, newState, move.rotation)
                    [] move.face = "B" -> rotateBackFace(h1, newState, move.rotation)
                    [] OTHER -> h1,
        state |-> newState]

\* performMove: copy the state, then rotate the copy in place
performMove(h, state, move) ==
    LET c == CopyFaces(h, state)
        newState == c.state
        h1 == c.heap
    IN [heap  |-> CASE move.face = "R" -> rotateRightFace(h1, newState, move.rotation)
                    [] move.face = "L" -> rotateLeftFace(h1, newState, move.rotation)
                    [] move.face = "U" -> rotateTopFace(h1, newState, move.rotation)
                    [] move.face = "D" -> rotateBottomFace(h1, newState, move.rotation)
                    [] move.face = "F" -> rotateFrontFace(h1, newState, move.rotation)
                    [] move.face = "B" -> rotateBackFace(h1, newState, move.rotation)
                    [] OTHER -> h1,
        state |-> newState]

(***************************************************************************)
(* validateCubeState                                                       *)
(***************************************************************************)
\* Object.values(faceColors) walked face by face: all stickers in key order
RECURSIVE Stickers(_, _)
Stickers(faceColors, i) ==
    IF i > 6 THEN <<>>
    ELSE (IF FaceKeys[i] \in DOMAIN faceColors THEN faceColors[FaceKeys[i]] ELSE <<>>)
         \o Stickers(faceColors, i + 1)

\* colorCounts[color] || 0
CountOf(all, color) == Cardinality({i \in 1..Len(all) : all[i] = color})

\* Object.keys(colorCounts): the colors in order of first appearance
RECURSIVE KeysOf(_, _)
KeysOf(all, i) ==
    IF i > Len(all) THEN <<>>
    ELSE IF \E j \in 1..(i - 1) : all[j] = all[i]
         THEN KeysOf(all, i + 1)
         ELSE <<all[i]>> \o KeysOf(all, i + 1)

IsStandard(color) == \E i \in 1..6 : standardColors[i] = color

\* "<color>: expected 9, found <count>"
CountError(color, count) == [kind |-> "count", color |-> color, found |-> count]

\* "Unknown color detected: <color>"
UnknownError(color) == [kind |-> "unknown", color |-> color, found |-> 0]

\* faulty variant: only a color that occurs fewer than 9 times is reported
RECURSIVE CountErrorsFewer(_, _)
CountErrorsFewer(all, i) ==
    IF i > 6 THEN <<>>
    ELSE (IF CountOf(all, standardColors[i]) < 9
          THEN <<CountError(standardColors[i], CountOf(all, standardColors[i]))>>
          ELSE <<>>)
         \o CountErrorsFewer(all, i + 1)

RECURSIVE CountErrors(_, _)
CountErrors(all, i) ==
    IF i > 6 THEN <<>>
    ELSE (IF CountOf(all, standardColors[i]) # 9
          THEN <<CountError(standardColors[i], CountOf(all, standardColors[i]))>>
          ELSE <<>>)
         \o CountErrors(all, i + 1)

RECURSIVE UnknownErrors(_)
UnknownErrors(keys) ==
    IF keys = <<>> THEN <<>>
    ELSE (IF ~IsStandard(Head(keys)) THEN <<UnknownError(Head(keys))>> ELSE <<>>)
         \o UnknownErrors(Tail(keys))

validateCubeState(faceColors) ==
    LET all == Stickers(faceColors, 1)
        errors == CountErrors(all, 1) \o UnknownErrors(KeysOf(all, 1))
    IN [isValid |-> Len(errors) = 0, errors |-> errors]

(***************************************************************************)
(* Inputs                                                                  *)
(***************************************************************************)
Uniform(color) == [i \in 1..9 |-> color]

\* U=white, D=yellow, F=red, B=orange, L=blue, R=green
Solved ==
    [front |-> Uniform("red"), back |-> Uniform("orange"), left |-> Uniform("blue"),
     right |-> Uniform("green"), top |-> Uniform("white"), bottom |-> Uniform("yellow")]

\* every sticker carries its own label, so a state shows where each sticker went
Labelled == [k \in FaceKeySet |-> [i \in 1..9 |-> k \o ToString(i - 1)]]

\* 10 white and 8 yellow stickers, the rest correct
Imbalanced == [Solved EXCEPT !.bottom[5] = "white"]

\* the states a manager is constructed with: one passes the validator, one does not
InitialStates == {Solved, Labelled}

SixFaces(v) == DOMAIN v = FaceKeySet /\ \A k \in FaceKeySet : Len(v[k]) = 9

Inverse(move) == [face |-> move.face, rotation |-> 4 - move.rotation]

\* the move sequences applied: quarter turns of one face, and
\* any sequence followed by its inverse
IsRepeat(l) == \A i \in 1..Len(l) : l[i].rotation = 1 /\ l[i].face = l[1].face

IsUndo(l) ==
    \E n \in 1..MaxUndo :
        /\ Len(l) <= 2 * n
        /\ \A i \in (n + 1)..Len(l) : l[i] = Inverse(l[2 * n + 1 - i])

Allowed(l) ==
    \/ Len(l) <= MaxRepeat /\ IsRepeat(l)
    \/ IsUndo(l)

(***************************************************************************)
(* The useCube store as it is created                                      *)
(***************************************************************************)
\* null, as a record so that it compares with a solution
NoSolution == [null |-> TRUE]

\* the object {}
EmptyObject == [k \in {} |-> <<>>]

\* the state the store is created with (animationSpeed, a fraction, is left out)
InitialStore ==
    [faceImages       |-> EmptyObject,
     faceColors       |-> EmptyObject,
     cubeState        |-> "empty",
     savedCubes       |-> <<>>,
     solution         |-> NoSolution,
     solverMethod     |-> "beginner",
     currentStepIndex |-> 0,
     currentMoveIndex |-> 0,
     isPlaying        |-> FALSE,
     isAnimating      |-> FALSE,
     highlightLayer   |-> "null"]

\* no component is mounted
NoUi == [screen |-> "none"]

\* the application is not part of the run
NoApp ==
    /\ store = InitialStore
    /\ ui = NoUi
    /\ clock = 0
    /\ hist = <<>>

(***************************************************************************)
(* CubeStateManager: construction and the public methods                   *)
(***************************************************************************)
NoObject == [k \in FaceKeySet |-> Null]

Handed(h, obj) == [obj |-> obj, seen |-> Value(h, obj)]

\* the object passed to the constructor: six arrays holding the stickers of s
ArgObject == [k \in FaceKeySet |-> CHOOSE i \in 1..6 : FaceKeys[i] = k]

ArgHeap(s) == [i \in 1..6 |-> s[FaceKeys[i]]]

\* new CubeStateManager(s): both fields are shallow copies of the argument
Construct(s) ==
    LET arg == ArgObject
        h == ArgHeap(s)
    IN /\ heap = h
       /\ initialState = arg
       /\ currentState = arg
       /\ held = {Handed(h, arg)}
       /\ log = <<>>
       /\ trail = <<s>>
       /\ moves = 0
       /\ resets = 0

Init ==
    /\ NoApp
    /\ \E s \in InitialStates : Construct(s)
    /\ input = [fn |-> "none", arg |-> <<>>]
    /\ output = [calls |-> <<>>, ret |-> <<>>]

\* applyMove(move)
ApplyMove(move) ==
    /\ Allowed(Append(log, move))
    /\ resets = 0 \/ moves + resets < MaxShort
    /\ LET r == performMove(heap, currentState, move)
       IN /\ heap' = r.heap
          /\ currentState' = r.state
          /\ held' = held \cup {Handed(r.heap, r.state)}
          /\ trail' = Append(trail, Value(r.heap, r.state))
    /\ log' = Append(log, move)
    /\ moves' = moves + 1
    /\ UNCHANGED <<initialState, resets, input, output>>
    /\ UNCHANGED appVars

\* reset()
Reset ==
    /\ moves + resets < MaxShort
    /\ currentState' = initialState
    /\ log' = <<>>
    /\ trail' = <<Value(heap, initialState)>>
    /\ resets' = resets + 1
    /\ UNCHANGED <<heap, initialState, held, moves, input, output>>
    /\ UNCHANGED appVars

\* getCurrentState(): the manager is left as it is; the caller holds the copy
GetCurrentState ==
    /\ held' = held \cup {Handed(heap, currentState)}
    /\ UNCHANGED <<heap, initialState, currentState, log, trail, moves, resets, input, output>>
    /\ UNCHANGED appVars

Next ==
    \/ \E move \in Move : ApplyMove(move)
    \/ Reset
    \/ GetCurrentState

Spec == Init /\ [][Next]_vars

(***************************************************************************)
(* The pure functions called on their own: rotateFace on one array and     *)
(* validateCubeState on one faceColors object                              *)
(***************************************************************************)
Palette == {standardColors[i] : i \in 1..6} \cup {"purple", "pink"}

EditFaces == {"top", "bottom"}

\* the solved cube with at most n stickers of two faces overwritten
RECURSIVE Edits(_)
Edits(n) ==
    IF n = 0 THEN {Solved}
    ELSE LET prev == Edits(n - 1)
         IN prev \cup {[s EXCEPT ![k][i] = c] :
                          s \in prev, k \in EditFaces, i \in 1..9, c \in Palette}

\* six uniform faces in six distinct colors
UniformStates ==
    {[k \in FaceKeySet |-> Uniform(p[k])] :
        p \in {q \in [FaceKeySet -> {standardColors[i] : i \in 1..6}] :
                  \A a, b \in FaceKeySet : a # b => q[a] # q[b]}}

\* a faceColors object holding one face only
Partial == [k \in {"front"} |-> Uniform("red")]

ValidatorInputs == InitialStates \cup {Imbalanced} \cup Edits(MaxEdits) \cup UniformStates \cup {Partial}

FaceInputs ==
    {Labelled[k] : k \in FaceKeySet}
    \cup [1..9 -> {"white", "red"}]
    \cup {[i \in 1..8 |-> "top" \o ToString(i - 1)], [i \in 1..10 |-> "top" \o ToString(i - 1)]}

NoManager ==
    /\ heap = <<>>
    /\ initialState = NoObject
    /\ currentState = NoObject
    /\ held = {}
    /\ log = <<>>
    /\ trail = <<>>
    /\ moves = 0
    /\ resets = 0

InitPure ==
    /\ NoApp
    /\ NoManager
    /\ \/ \E fc \in ValidatorInputs :
             /\ input = [fn |-> "validateCubeState", arg |-> fc]
             /\ output = [calls |-> <<>>, ret |-> <<>>]
       \/ \E face \in FaceInputs :
             /\ input = [fn |-> "rotateFace", arg |-> face]
             /\ output = [calls |-> <<>>, ret |-> <<>>]

\* validateCubeState(faceColors)
CallValidate ==
    /\ input.fn = "validateCubeState"
    /\ output.calls = <<>>
    /\ output' = [calls |-> <<TRUE>>, ret |-> validateCubeState(input.arg)]
    /\ UNCHANGED <<mgrVars, input>>
    /\ UNCHANGED appVars

\* the array as the calls so far left it
FaceNow == IF output.ret = <<>> THEN input.arg ELSE output.ret[Len(output.ret)]

\* rotateFace(face, clockwise) on the same array again; ret keeps the array after each call
CallRotateFace(clockwise) ==
    /\ input.fn = "rotateFace"
    /\ Len(output.calls) < MaxCalls
    /\ output' = [calls |-> Append(output.calls, clockwise),
                  ret   |-> Append(output.ret, rotateFace(<<FaceNow>>, 1, clockwise)[1])]
    /\ UNCHANGED <<mgrVars, input>>
    /\ UNCHANGED appVars

NextPure ==
    \/ CallValidate
    \/ \E clockwise \in BOOLEAN : CallRotateFace(clockwise)

SpecPure == InitPure /\ [][NextPure]_vars

(***************************************************************************)
(* CubeStateManager constructed from an object with a short face           *)
(***************************************************************************)
\* a state object in which one face has 8 entries only
ShortFaceStates ==
    {[s EXCEPT ![k] = SubSeq(s[k], 1, 8)] : s \in InitialStates, k \in FaceKeySet}

InitShortFace ==
    /\ NoApp
    /\ NoManager
    /\ \E s \in ShortFaceStates : input = [fn |-> "CubeStateManager", arg |-> s]
    /\ output = [calls |-> <<>>, ret |-> <<>>]

\* new CubeStateManager(input.arg): the constructor copies the object and
\* looks at no length
NewManager ==
    /\ input.fn = "CubeStateManager"
    /\ initialState = NoObject
    /\ LET arg == ArgObject
           h == ArgHeap(input.arg)
       IN /\ heap' = h
          /\ initialState' = arg
          /\ currentState' = arg
          /\ held' = {Handed(h, arg)}
          /\ trail' = <<input.arg>>
    /\ log' = <<>>
    /\ moves' = 0
    /\ resets' = 0
    /\ UNCHANGED <<input, output>>
    /\ UNCHANGED appVars

NextShortFace ==
    \/ NewManager
    \/ initialState # NoObject /\ Next

SpecShortFace == InitShortFace /\ [][NextShortFace]_vars

(***************************************************************************)
(* cubeUtils: algorithmToNotation, parseNotation, isCubeSolved and         *)
(* optimizeMoves.  A JavaScript string is a sequence of one-character      *)
(* strings.                                                                *)
(***************************************************************************)
\* the characters String.prototype.trim() strips, as far as the inputs use them
WhiteSpace == {" ", "\t"}

\* the face and the suffix of one move, lines 81-84
MoveToken(move) ==
    IF move.rotation = 1 THEN <<move.face>>
    ELSE IF move.rotation = 2 THEN <<move.face, "2">>
    ELSE IF move.rotation = 3 THEN <<move.face, "'">>
    ELSE <<move.face>>

\* Array.prototype.join(sep)
RECURSIVE join(_, _)
join(parts, sep) ==
    IF parts = <<>> THEN <<>>
    ELSE IF Len(parts) = 1 THEN parts[1]
    ELSE parts[1] \o sep \o join(Tail(parts), sep)

\* faulty variant: the moves are joined without a separator
algorithmToNotationNoSep(algorithm) ==
    join([i \in 1..Len(algorithm.moves) |-> MoveToken(algorithm.moves[i])], <<>>)

algorithmToNotation(algorithm) ==
    join([i \in 1..Len(algorithm.moves) |-> MoveToken(algorithm.moves[i])], <<" ">>)

\* String.prototype.split(sep) for a one-character separator: the pieces
\* between successive separators, so "" gives [""]
split(s, sep) ==
    LET seps == {i \in 1..Len(s) : s[i] = sep}
        n == Cardinality(seps)
        pos(k) == IF k = 0 THEN 0
                  ELSE IF k = n + 1 THEN Len(s) + 1
                  ELSE CHOOSE i \in seps : Cardinality({j \in seps : j < i}) = k - 1
    IN [k \in 1..(n + 1) |-> SubSeq(s, pos(k - 1) + 1, pos(k) - 1)]

RECURSIVE trimStart(_)
trimStart(s) == IF s # <<>> /\ Head(s) \in WhiteSpace THEN trimStart(Tail(s)) ELSE s

RECURSIVE trimEnd(_)
trimEnd(s) ==
    IF s # <<>> /\ s[Len(s)] \in WhiteSpace THEN trimEnd(SubSeq(s, 1, Len(s) - 1)) ELSE s

\* String.prototype.trim()
trim(s) == trimEnd(trimStart(s))

\* String.prototype.includes(c)
includes(s, c) == \E i \in 1..Len(s) : s[i] = c

\* notation.split(' ').filter(token => token.trim()): a non-empty string is truthy
Tokens(notation) == SelectSeq(split(notation, " "), LAMBDA token : trim(token) # <<>>)

\* the rotation lines 95-101 give a token
TokenRotation(token) ==
    IF includes(token, "2") THEN 2
    ELSE IF includes(token, "'") THEN 3
    ELSE 1

\* tokens.forEach, lines 93-106: a token whose first character is a face
\* letter pushes one move, in the order of the tokens
parseNotation(notation) ==
    LET tokens == Tokens(notation)
        pushed == SelectSeq(tokens, LAMBDA token : token[1] \in {"R", "L", "U", "D", "F", "B"})
    IN [i \in 1..Len(pushed) |-> [face |-> pushed[i][1], rotation |-> TokenRotation(pushed[i])]]

\* faulty variant: the length of a face is not looked at
isCubeSolvedAnyLength(faceColors) ==
    \A i \in 1..6 :
        LET face == FaceKeys[i]
        IN /\ face \in DOMAIN faceColors
           /\ \A j \in 1..Len(faceColors[face]) : faceColors[face][j] = faceColors[face][1]

\* faces.every(...): a face that is missing or not 9 long makes the answer false
isCubeSolved(faceColors) ==
    \A i \in 1..6 :
        LET face == FaceKeys[i]
        IN /\ face \in DOMAIN faceColors
           /\ Len(faceColors[face]) = 9
           /\ \A j \in 1..9 : faceColors[face][j] = faceColors[face][1]

\* faulty variant: the sum of the rotations is not reduced
NormalizeNone(totalRotation) == totalRotation

\* faulty variant: a half turn counts as no turn
NormalizeHalf(totalRotation) == totalRotation % 2

\* totalRotation % 4, line 249
Normalize(totalRotation) == totalRotation % 4

\* the while loop of lines 243-246 from index j on: the index it stops at
RECURSIVE RunEnd(_, _, _)
RunEnd(mvs, face, j) ==
    IF j <= Len(mvs) /\ mvs[j].face = face THEN RunEnd(mvs, face, j + 1) ELSE j

\* the rotations it adds up: those of moves[i..j-1]
RECURSIVE RunTotal(_, _, _)
RunTotal(mvs, i, j) == IF i >= j THEN 0 ELSE mvs[i].rotation + RunTotal(mvs, i + 1, j)

\* the for loop of lines 237-261 from index i on
RECURSIVE OptimizeFrom(_, _)
OptimizeFrom(mvs, i) ==
    IF i > Len(mvs) THEN <<>>
    ELSE LET current == mvs[i]
             j == RunEnd(mvs, current.face, i + 1)
             totalRotation == Normalize(RunTotal(mvs, i, j))
         IN (IF totalRotation # 0
             THEN <<[face |-> current.face, rotation |-> totalRotation]>>
             ELSE <<>>) \o OptimizeFrom(mvs, j)

optimizeMoves(mvs) == OptimizeFrom(mvs, 1)

\* validateMoveSequence(moves): false at the first i whose three moves share a face
validateMoveSequence(mvs) ==
    ~\E i \in 0..(Len(mvs) - 3) :
        mvs[i + 1].face = mvs[i + 2].face /\ mvs[i + 2].face = mvs[i + 3].face

\* a string literal of the source as a sequence of characters
Chars(s) == [i \in 1..Len(s) |-> SubSeq(s, i, i)]

(***************************************************************************)
(* The solvers: LayerByLayerSolver, BeginnerSolver, KociembaSolver and     *)
(* getSolution.  Of a step the model keeps the id, the moves and, where    *)
(* the source sets it, the notation.                                       *)
(***************************************************************************)
BEGINNER_ALGORITHMS ==
    [RIGHT_HAND_TRIGGER  |-> [moves |-> Chars("R U R' U'")],
     WHITE_CROSS_FLIP    |-> [moves |-> Chars("F R U R' U' F'")],
     RIGHT_CORNER_INSERT |-> [moves |-> Chars("R' D' R D")],
     CORNER_ORIENT       |-> [moves |-> Chars("R D R' D' R D R' D'")],
     RIGHT_EDGE_INSERT   |-> [moves |-> Chars("U R U' R' U' F' U F")],
     LEFT_EDGE_INSERT    |-> [moves |-> Chars("U' L' U L U F U' F'")],
     OLL_CROSS           |-> [moves |-> Chars("F R U R' U' F'")],
     OLL_SUNE            |-> [moves |-> Chars("R U R' U R U2 R'")],
     OLL_ANTI_SUNE       |-> [moves |-> Chars("L' U' L U' L' U2 L")],
     PLL_T_PERM          |-> [moves |-> Chars("R U R' F' R U R' U' R' F R2 U' R'")],
     PLL_Y_PERM          |-> [moves |-> Chars("F R U' R' U' R U R' F' R U R' U' R' F R F'")],
     PLL_A_PERM          |-> [moves |-> Chars("R' F R' B2 R F' R' B2 R2")],
     PLL_U_PERM          |-> [moves |-> Chars("R2 U' R' U' R U R U R U' R")]]

generateWhiteCrossMoves == parseNotation(BEGINNER_ALGORITHMS.WHITE_CROSS_FLIP.moves)

generateWhiteCornerMoves == parseNotation(BEGINNER_ALGORITHMS.RIGHT_CORNER_INSERT.moves)

generateMiddleLayerMoves ==
    parseNotation(BEGINNER_ALGORITHMS.RIGHT_EDGE_INSERT.moves)
        \o parseNotation(BEGINNER_ALGORITHMS.LEFT_EDGE_INSERT.moves)

generateYellowCrossMoves == parseNotation(BEGINNER_ALGORITHMS.OLL_CROSS.moves)

generateYellowCornerOrientMoves == parseNotation(BEGINNER_ALGORITHMS.OLL_SUNE.moves)

generateYellowCornerPermuteMoves == parseNotation(BEGINNER_ALGORITHMS.PLL_Y_PERM.moves)

generateYellowEdgePermuteMoves == parseNotation(BEGINNER_ALGORITHMS.PLL_T_PERM.moves)

\* steps.reduce((sum, step) => sum + step.moves.length, 0)
RECURSIVE TotalMoves(_)
TotalMoves(steps) == IF steps = <<>> THEN 0 ELSE Len(Head(steps).moves) + TotalMoves(Tail(steps))

\* LayerByLayerSolver.generateSolution()
generateSolution ==
    LET steps == <<[id |-> 1, moves |-> generateWhiteCrossMoves],
                   [id |-> 2, moves |-> generateWhiteCornerMoves],
                   [id |-> 3, moves |-> generateMiddleLayerMoves],
                   [id |-> 4, moves |-> generateYellowCrossMoves],
                   [id |-> 5, moves |-> generateYellowCornerOrientMoves],
                   [id |-> 6, moves |-> generateYellowCornerPermuteMoves],
                   [id |-> 7, moves |-> generateYellowEdgePermuteMoves]>>
    IN [steps |-> steps, totalMoves |-> TotalMoves(steps), method |-> "beginner"]

\* BeginnerSolver.canSolve(): every face is there and 9 long
BeginnerCanSolvePresent(cubeState) ==
    \A i \in 1..6 : FaceKeys[i] \in DOMAIN cubeState

BeginnerCanSolve(cubeState) ==
    \A i \in 1..6 : FaceKeys[i] \in DOMAIN cubeState /\ Len(cubeState[FaceKeys[i]]) = 9

\* KociembaSolver.canSolve(): the return inside forEach only skips the face;
\* each standard color is counted 9 times over the faces that are 9 long
KociembaCanSolve(cubeState) ==
    LET counted == {k \in FaceKeySet : k \in DOMAIN cubeState /\ Len(cubeState[k]) = 9}
        colorCounts(color) ==
            Cardinality({p \in counted \X (1..9) : cubeState[p[1]][p[2]] = color})
    IN \A i \in 1..6 : colorCounts(standardColors[i]) = 9

colorToSymbol ==
    [white |-> "U", yellow |-> "D", red |-> "F", orange |-> "B", green |-> "R", blue |-> "L"]

\* convertToStandardNotation(faceColors)
convertToStandardNotation(faceColors) ==
    LET faceOrder == <<"top", "right", "front", "bottom", "left", "back">>
        part(face) ==
            IF face \in DOMAIN faceColors /\ Len(faceColors[face]) = 9
            THEN [i \in 1..9 |-> IF faceColors[face][i] \in DOMAIN colorToSymbol
                                 THEN colorToSymbol[faceColors[face][i]]
                                 ELSE "U"]
            ELSE [i \in 1..9 |-> "U"]
    IN part(faceOrder[1]) \o part(faceOrder[2]) \o part(faceOrder[3])
         \o part(faceOrder[4]) \o part(faceOrder[5]) \o part(faceOrder[6])

\* String.prototype.charCodeAt for the six symbols
charCode == [U |-> 85, D |-> 68, F |-> 70, B |-> 66, R |-> 82, L |-> 76]

Half == 65536

\* A 32-bit integer is kept as its two 16-bit halves <<high, low>>.
\* hash = ((hash << 5) - hash) + char; hash = hash & hash: 31 * hash + char, to 32 bits
HashStep(hash, char) ==
    LET low == hash[2] * 31 + char
        high == hash[1] * 31 + (low \div Half)
    IN <<high % Half, low % Half>>

RECURSIVE HashFrom(_, _, _)
HashFrom(cubeString, i, hash) ==
    IF i > Len(cubeString) \/ hash = <<>> THEN hash
    ELSE HashFrom(cubeString, i + 1, HashStep(hash, charCode[cubeString[i]]))

\* Math.abs of the signed value of the two halves
AbsHalves(hash) ==
    IF hash[1] < 32768 THEN hash
    ELSE IF hash[2] = 0 THEN <<Half - hash[1], 0>>
    ELSE <<Half - 1 - hash[1], Half - hash[2]>>

\* KociembaSolver.hashCubeState(cubeString)
hashCubeState(cubeString) == AbsHalves(HashFrom(cubeString, 1, <<0, 0>>))

\* hash % n for n < 2^15
HashMod(hash, n) == ((hash[1] % n) * (Half % n) + (hash[2] % n)) % n

phase1Solutions ==
    <<Chars("D' R' D R2 U' R D' R' U R'"),
      Chars("R U2 R' D R U' R' D' R U R'"),
      Chars("F R U' R' U' R U R' F' R U R' U' R' F R F'"),
      Chars("R' U' F' U F R U R' U' R"),
      Chars("L F R' F' L' F R F' U2")>>

phase2Solutions ==
    <<Chars("R2 U R U R' U' R' U' R' U R'"),
      Chars("R U' R U R U R U' R' U' R2"),
      Chars("R2 U' R' U' R U R U R U' R"),
      Chars("R U2 R' U' R U' R' U R U R'"),
      Chars("L' U R U' L U R' U2")>>

\* KociembaSolver.generateOptimalSolution()
generateOptimalSolution(cubeState) ==
    LET hash == hashCubeState(convertToStandardNotation(cubeState))
        phase1Index == HashMod(hash, Len(phase1Solutions))
        phase2Index == (HashMod(hash, Len(phase2Solutions)) * 7) % Len(phase2Solutions)
    IN [phase1 |-> phase1Solutions[phase1Index + 1], phase2 |-> phase2Solutions[phase2Index + 1]]

\* KociembaSolver.solve()
KociembaSolve(cubeState) ==
    LET sol == generateOptimalSolution(cubeState)
        steps == <<[id |-> 1, moves |-> parseNotation(sol.phase1), notation |-> sol.phase1],
                   [id |-> 2, moves |-> parseNotation(sol.phase2), notation |-> sol.phase2]>>
    IN [steps |-> steps, totalMoves |-> TotalMoves(steps), method |-> "kociemba"]

\* createSolver(cubeState, method) and getSolution(cubeState, method)
getSolution(cubeState, method) ==
    IF method = "beginner"
    THEN IF BeginnerCanSolve(cubeState) THEN generateSolution ELSE NoSolution
    ELSE IF KociembaCanSolve(cubeState) THEN KociembaSolve(cubeState) ELSE NoSolution

\* The second copy of the solvers (lines 197-389): BeginnerSolver.solve()
BeginnerSolverSolve ==
    LET notations == <<Chars("F D R U' R' F'"),
                       Chars("R' D' R D"),
                       Chars("U R U' R' U' F' U F"),
                       Chars("F R U R' U' F'"),
                       Chars("R U R' F' R U R' U' R' F R2 U' R'")>>
        steps == [i \in 1..5 |->
                     [id |-> i, moves |-> parseNotation(notations[i]), notation |-> notations[i]]]
    IN [steps |-> steps, totalMoves |-> TotalMoves(steps), method |-> "beginner"]

phase1Algorithms ==
    <<Chars("R U2 R' D R U' R' D'"),
      Chars("F R U' R' U' R U R' F'"),
      Chars("R U R' U R U2 R'"),
      Chars("L' U' L U' L' U2 L")>>

phase2Algorithms ==
    <<Chars("R2 U R U R' U' R' U' R' U R'"),
      Chars("R U' R U R U R U' R' U' R2"),
      Chars("R2 U' R' U' R U R U R U' R"),
      Chars("R U R' U' R' F R2 U' R' U' R U R' F'")>>

\* KociembaSolver.generateKociembaSolution(): random1 and random2 are the
\* indices Math.floor(Math.random() * length) gave
generateKociembaSolution(random1, random2) ==
    [phase1 |-> phase1Algorithms[random1 + 1], phase2 |-> phase2Algorithms[random2 + 1]]

\* the second copy of KociembaSolver.solve()
KociembaSolverSolve(random1, random2) ==
    LET optimalSolution == generateKociembaSolution(random1, random2)
        steps == <<[id |-> 1, moves |-> parseNotation(optimalSolution.phase1),
                    notation |-> optimalSolution.phase1],
                   [id |-> 2, moves |-> parseNotation(optimalSolution.phase2),
                    notation |-> optimalSolution.phase2]>>
    IN [steps |-> steps, totalMoves |-> TotalMoves(steps), method |-> "kociemba"]

\* the second copy of getSolution(cubeState, method)
SolverGetSolution(cubeState, method, random1, random2) ==
    IF method = "beginner"
    THEN IF BeginnerCanSolve(cubeState) THEN BeginnerSolverSolve ELSE NoSolution
    ELSE IF KociembaCanSolve(cubeState)
         THEN KociembaSolverSolve(random1, random2)
         ELSE NoSolution

(***************************************************************************)
(* The other validators of the color counts                                *)
(***************************************************************************)
\* getCubeStateSummary(faceColors): the faces that are there are counted
getCubeStateSummary(faceColors) ==
    LET present == FaceKeySet \cap DOMAIN faceColors
        totalColors(color) ==
            Cardinality({p \in UNION {{k} \X DOMAIN faceColors[k] : k \in present} :
                            faceColors[p[1]][p[2]] = color})
    IN [completedFaces |-> Cardinality({k \in present :
                               \A i \in DOMAIN faceColors[k] : faceColors[k][i] = faceColors[k][1]}),
        isValidState   |-> \A i \in 1..6 : totalColors(standardColors[i]) = 9]

\* names every object inherits: 'color in colorCounts' holds for them and
\* colorCounts[color]++ leaves NaN under the name
ObjectPrototypeKeys == {"constructor", "toString", "valueOf", "hasOwnProperty"}

\* faulty variant: some instead of every
validateCubeSome(faceColors) ==
    LET colorCounts(color) ==
            Cardinality({p \in UNION {{k} \X DOMAIN faceColors[k] : k \in DOMAIN faceColors} :
                            faceColors[p[1]][p[2]] = color})
    IN \E i \in 1..6 : colorCounts(standardColors[i]) = 9

\* validateCube() of CubeVisualization on the faceColors of the store
validateCube(faceColors) ==
    LET places == UNION {{k} \X DOMAIN faceColors[k] : k \in DOMAIN faceColors}
        colorCounts(color) == Cardinality({p \in places : faceColors[p[1]][p[2]] = color})
        notANumber == \E p \in places : faceColors[p[1]][p[2]] \in ObjectPrototypeKeys
    IN (\A i \in 1..6 : colorCounts(standardColors[i]) = 9) /\ ~notANumber

(***************************************************************************)
(* The functions of cubeUtils called on their own                          *)
(***************************************************************************)
NotationChars == {"R", "U", "x", "2", "'", " ", "\t"}

\* the strings of at most n characters
RECURSIVE StringsUpTo(_)
StringsUpTo(n) ==
    IF n = 0 THEN {<<>>}
    ELSE LET prev == StringsUpTo(n - 1)
         IN prev \cup {Append(s, c) : s \in {t \in prev : Len(t) = n - 1}, c \in NotationChars}

\* the move sequences of at most n moves
RECURSIVE MovesUpTo(_)
MovesUpTo(n) ==
    IF n = 0 THEN {<<>>}
    ELSE LET prev == MovesUpTo(n - 1)
         IN prev \cup {Append(m, move) : m \in {t \in prev : Len(t) = n - 1}, move \in Move}

\* six uniform faces whose colors may repeat
RepeatedColorStates == {[k \in FaceKeySet |-> Uniform(p[k])] : p \in [FaceKeySet -> {"white", "red"}]}

\* a face with a sticker too few or too many
WrongLengthStates ==
    {[Solved EXCEPT ![k] = [i \in 1..n |-> Solved[k][1]]] : k \in FaceKeySet, n \in {0, 8, 10}}

\* the sequences of at most n turns of the right and the top face
RECURSIVE TurnsUpTo(_)
TurnsUpTo(n) ==
    IF n = 0 THEN {<<>>}
    ELSE LET prev == TurnsUpTo(n - 1)
         IN prev \cup {Append(m, move) : m \in {t \in prev : Len(t) = n - 1},
                                         move \in {x \in Move : x.face \in {"R", "U"}}}

SolvedInputs == ValidatorInputs \cup RepeatedColorStates \cup WrongLengthStates

\* 54 stickers, 9 of each color, with the stickers of one face on another
MisplacedStates ==
    {[Solved EXCEPT ![j] = <<>>, ![k] = Solved[k] \o Solved[j]] :
        j \in {"front"}, k \in {"back", "top"}}

\* a sticker whose value is a name every object inherits
InheritedNameStates == {[Solved EXCEPT !.top[1] = name] : name \in ObjectPrototypeKeys}

InitUtils ==
    /\ NoApp
    /\ NoManager
    /\ output = [calls |-> <<>>, ret |-> <<>>]
    /\ \/ \E m \in MovesUpTo(MaxAlg) :
             input = [fn |-> "algorithmToNotation", arg |-> [moves |-> m]]
       \/ \E s \in StringsUpTo(MaxChars) : input = [fn |-> "parseNotation", arg |-> s]
       \/ \E fc \in SolvedInputs : input = [fn |-> "isCubeSolved", arg |-> fc]
       \/ \E m \in MovesUpTo(MaxAlg) \cup TurnsUpTo(MaxSeq) :
             input = [fn |-> "optimizeMoves", arg |-> m]
       \/ \E m \in MovesUpTo(MaxAlg) \cup TurnsUpTo(MaxSeq) :
             input = [fn |-> "validateMoveSequence", arg |-> m]
       \/ \E fc \in SolvedInputs \cup MisplacedStates \cup InheritedNameStates :
             input = [fn |-> "validators", arg |-> fc]
       \/ \E fc \in SolvedInputs \cup MisplacedStates, method \in {"beginner", "kociemba"} :
             input = [fn |-> "getSolution", arg |-> [cubeState |-> fc, method |-> method]]

\* algorithmToNotation(algorithm)
CallAlgorithmToNotation ==
    /\ input.fn = "algorithmToNotation"
    /\ output.calls = <<>>
    /\ output' = [calls |-> <<"algorithmToNotation">>, ret |-> <<algorithmToNotation(input.arg)>>]
    /\ UNCHANGED <<mgrVars, input>>
    /\ UNCHANGED appVars

\* parseNotation(notation), on the input or on the string algorithmToNotation returned
CallParseNotation ==
    /\ \/ input.fn = "parseNotation" /\ output.calls = <<>>
       \/ input.fn = "algorithmToNotation" /\ output.calls = <<"algorithmToNotation">>
    /\ LET notation == IF output.calls = <<>> THEN input.arg ELSE output.ret[1]
       IN output' = [calls |-> Append(output.calls, "parseNotation"),
                     ret   |-> Append(output.ret, parseNotation(notation))]
    /\ UNCHANGED <<mgrVars, input>>
    /\ UNCHANGED appVars

\* isCubeSolved(faceColors)
CallIsCubeSolved ==
    /\ input.fn = "isCubeSolved"
    /\ output.calls = <<>>
    /\ output' = [calls |-> <<"isCubeSolved">>, ret |-> <<isCubeSolved(input.arg)>>]
    /\ UNCHANGED <<mgrVars, input>>
    /\ UNCHANGED appVars

\* optimizeMoves(moves)
CallOptimizeMoves ==
    /\ input.fn = "optimizeMoves"
    /\ output.calls = <<>>
    /\ output' = [calls |-> <<"optimizeMoves">>, ret |-> <<optimizeMoves(input.arg)>>]
    /\ UNCHANGED <<mgrVars, input>>
    /\ UNCHANGED appVars

\* validateMoveSequence(moves)
CallValidateMoveSequence ==
    /\ input.fn = "validateMoveSequence"
    /\ output.calls = <<>>
    /\ output' = [calls |-> <<"validateMoveSequence">>, ret |-> <<validateMoveSequence(input.arg)>>]
    /\ UNCHANGED <<mgrVars, input>>
    /\ UNCHANGED appVars

\* the four validators of the color counts on one state
CallValidators ==
    /\ input.fn = "validators"
    /\ output.calls = <<>>
    /\ output' = [calls |-> <<"validateCubeState", "getCubeStateSummary", "canSolve", "validateCube">>,
                  ret   |-> <<validateCubeState(input.arg).isValid,
                              getCubeStateSummary(input.arg).isValidState,
                              KociembaCanSolve(input.arg),
                              validateCube(input.arg)>>]
    /\ UNCHANGED <<mgrVars, input>>
    /\ UNCHANGED appVars

\* getSolution(cubeState, method) of RealCubeSolver
CallGetSolution ==
    /\ input.fn = "getSolution"
    /\ output.calls = <<>>
    /\ output' = [calls |-> <<"getSolution">>,
                  ret   |-> <<getSolution(input.arg.cubeState, input.arg.method)>>]
    /\ UNCHANGED <<mgrVars, input>>
    /\ UNCHANGED appVars

\* getSolution(cubeState, method) of the second copy, for the random numbers drawn
CallSolverGetSolution(random1, random2) ==
    /\ input.fn = "getSolution"
    /\ output.calls = <<>>
    /\ output' = [calls |-> <<"Solver.getSolution">>,
                  ret   |-> <<SolverGetSolution(input.arg.cubeState, input.arg.method,
                                               random1, random2)>>]
    /\ UNCHANGED <<mgrVars, input>>
    /\ UNCHANGED appVars

NextUtils ==
    \/ CallAlgorithmToNotation
    \/ CallParseNotation
    \/ CallIsCubeSolved
    \/ CallOptimizeMoves
    \/ CallValidateMoveSequence
    \/ CallValidators
    \/ CallGetSolution
    \/ \E random1 \in 0..(Len(phase1Algorithms) - 1), random2 \in 0..(Len(phase2Algorithms) - 1) :
          CallSolverGetSolution(random1, random2)

SpecUtils == InitUtils /\ [][NextUtils]_vars

(***************************************************************************)
(* The useCube store: each action as a function of the state object        *)
(***************************************************************************)
\* set(partial): the partial state merged into the state object
set(state, partial) ==
    [k \in DOMAIN state |-> IF k \in DOMAIN partial THEN partial[k] ELSE state[k]]

\* { ...object, [key]: value }
Spread(object, key, value) ==
    [k \in DOMAIN object \cup {key} |-> IF k = key THEN value ELSE object[k]]

\* Object.keys(object).length
KeyCount(object) == Cardinality(DOMAIN object)

setFaceImage(state, face, imageData) ==
    LET newFaceImages == Spread(state.faceImages, face, imageData)
        allImagesUploaded == KeyCount(newFaceImages) = 6
    IN set(state, [faceImages |-> newFaceImages,
                   cubeState  |-> IF allImagesUploaded THEN "images_uploaded"
                                                       ELSE state.cubeState])

setFaceColors(state, face, colors) ==
    LET newFaceColors == Spread(state.faceColors, face, colors)
        allColorsDetected == KeyCount(newFaceColors) = 6
    IN set(state, [faceColors |-> newFaceColors,
                   cubeState  |-> IF allColorsDetected THEN "colors_detected"
                                                       ELSE state.cubeState])

resetCube(state) ==
    set(state, [faceImages       |-> EmptyObject,
                faceColors       |-> EmptyObject,
                cubeState        |-> "empty",
                solution         |-> NoSolution,
                currentStepIndex |-> 0,
                currentMoveIndex |-> 0,
                isPlaying        |-> FALSE,
                isAnimating      |-> FALSE,
                highlightLayer   |-> "null"])

\* the id saveCube gives the cube and returns: Date.now().toString()
CubeId(now) == ToString(now)

\* saveCube(name) when Date.now() is now; the date in the default name is left out
saveCube(state, name, now) ==
    LET cubeName == IF name = "" THEN "Cube" ELSE name
        newCube == [id         |-> CubeId(now),
                    name       |-> cubeName,
                    timestamp  |-> now,
                    faceImages |-> state.faceImages,
                    faceColors |-> state.faceColors]
    IN set(state, [savedCubes |-> Append(state.savedCubes, newCube)])

\* savedCubes.find(c => c.id === cubeId): the position of the first such cube, 0 for undefined
find(savedCubes, cubeId) ==
    LET found == {n \in 1..Len(savedCubes) : savedCubes[n].id = cubeId}
    IN IF found = {} THEN 0 ELSE CHOOSE n \in found : \A m \in found : n <= m

loadCube(state, cubeId) ==
    LET n == find(state.savedCubes, cubeId)
    IN IF n # 0
       THEN set(state, [faceImages |-> state.savedCubes[n].faceImages,
                        faceColors |-> state.savedCubes[n].faceColors,
                        cubeState  |-> "ready_to_solve"])
       ELSE state

deleteSavedCube(state, cubeId) ==
    LET Kept(c) == c.id # cubeId
    IN set(state, [savedCubes |-> SelectSeq(state.savedCubes, Kept)])

setSolution(state, solution) == set(state, [solution |-> solution, cubeState |-> "ready_to_solve"])

setSolverMethod(state, method) == set(state, [solverMethod |-> method])

setCurrentStep(state, stepIndex) == set(state, [currentStepIndex |-> stepIndex])

setCurrentMove(state, moveIndex) == set(state, [currentMoveIndex |-> moveIndex])

setIsPlaying(state, playing) == set(state, [isPlaying |-> playing])

setIsAnimating(state, animating) == set(state, [isAnimating |-> animating])

setHighlightLayer(state, layer) == set(state, [highlightLayer |-> layer])

resetSolving(state) ==
    set(state, [solution         |-> NoSolution,
                currentStepIndex |-> 0,
                currentMoveIndex |-> 0,
                isPlaying        |-> FALSE,
                isAnimating      |-> FALSE,
                highlightLayer   |-> "null"])

(***************************************************************************)
(* The store called on its own: faces set, cubes saved, loaded and deleted *)
(***************************************************************************)
\* the faces and colors given to setFaceColors, and the image given to setFaceImage
StoreFaces == {"front"}

StoreColors == {Uniform("white"), Uniform("red")}

StoreImage == "data:image/png"

InitStore ==
    /\ NoManager
    /\ input = [fn |-> "none", arg |-> <<>>]
    /\ output = [calls |-> <<>>, ret |-> <<>>]
    /\ store = InitialStore
    /\ ui = NoUi
    /\ clock = 0
    /\ hist = <<>>

\* a millisecond passes
Tick ==
    /\ clock < MaxClock
    /\ clock' = clock + 1
    /\ UNCHANGED <<mgrVars, input, output, store, ui, hist>>

\* setFaceImage(face, imageData)
SetFaceImage(face) ==
    /\ store' = setFaceImage(store, face, StoreImage)
    /\ input' = [fn |-> "setFaceImage", arg |-> face]
    /\ UNCHANGED <<mgrVars, output, ui, clock, hist>>

\* setFaceColors(face, colors)
SetFaceColors(face, colors) ==
    /\ store' = setFaceColors(store, face, colors)
    /\ input' = [fn |-> "setFaceColors", arg |-> face]
    /\ UNCHANGED <<mgrVars, output, ui, clock, hist>>

\* resetCube()
ResetCube ==
    /\ store' = resetCube(store)
    /\ input' = [fn |-> "resetCube", arg |-> <<>>]
    /\ UNCHANGED <<mgrVars, output, ui, clock, hist>>

\* saveCube(); hist keeps the id returned and what the store held
SaveCube ==
    /\ Len(hist) < MaxSaves
    /\ store' = saveCube(store, "", clock)
    /\ input' = [fn |-> "saveCube", arg |-> <<>>]
    /\ hist' = Append(hist, [id         |-> CubeId(clock),
                             faceColors |-> store.faceColors,
                             faceImages |-> store.faceImages,
                             deleted    |-> FALSE])
    /\ UNCHANGED <<mgrVars, output, ui, clock>>

\* loadCube(cubeId) with an id saveCube returned
LoadCube(cubeId) ==
    /\ store' = loadCube(store, cubeId)
    /\ input' = [fn |-> "loadCube", arg |-> cubeId]
    /\ UNCHANGED <<mgrVars, output, ui, clock, hist>>

\* deleteSavedCube(cubeId) with an id saveCube returned
DeleteSavedCube(cubeId) ==
    /\ store' = deleteSavedCube(store, cubeId)
    /\ input' = [fn |-> "deleteSavedCube", arg |-> cubeId]
    /\ hist' = [n \in DOMAIN hist |->
                   IF hist[n].id = cubeId THEN [hist[n] EXCEPT !.deleted = TRUE] ELSE hist[n]]
    /\ UNCHANGED <<mgrVars, output, ui, clock>>

\* the ids saveCube returned so far
ReturnedIds == {hist[n].id : n \in DOMAIN hist}

NextStore ==
    \/ Tick
    \/ \E face \in StoreFaces : SetFaceImage(face)
    \/ \E face \in StoreFaces, colors \in StoreColors : SetFaceColors(face, colors)
    \/ ResetCube
    \/ SaveCube
    \/ \E cubeId \in ReturnedIds : LoadCube(cubeId)
    \/ \E cubeId \in ReturnedIds : DeleteSavedCube(cubeId)

SpecStore == InitStore /\ [][NextStore]_vars

(***************************************************************************)
(* The server route /detect-colors with provider 'roboflow'                *)
(***************************************************************************)
colorMapping ==
    [w |-> "white", white |-> "white", y |-> "yellow", yellow |-> "yellow",
     r |-> "red", red |-> "red", o |-> "orange", orange |-> "orange",
     g |-> "green", green |-> "green", b |-> "blue", blue |-> "blue"]

\* String.prototype.toLowerCase on the class names Roboflow is taken to return
toLowerCase(class) ==
    IF class = "W" THEN "w" ELSE IF class = "WHITE" THEN "white" ELSE class

\* the filter of processRoboflowPredictions; confidence is in hundredths
ValidPrediction(pred) ==
    LET hasValidClass == pred.class # "" /\ pred.class \in DOMAIN colorMapping
        hasGoodConfidence == pred.confidence > 40
        isReasonableSize == pred.width > 20 /\ pred.height > 20
    IN hasValidClass /\ hasGoodConfidence /\ isReasonableSize

\* the comparator of the sort: rows first, then columns
ComparePredictions(a, b) ==
    LET yDiff == a.y - b.y
    IN IF Abs(yDiff) > 60 THEN yDiff ELSE a.x - b.x

\* Array.prototype.sort on predictions the comparator orders strictly
SortPredictions(preds) ==
    LET Before(i) == Cardinality({j \in 1..Len(preds) : ComparePredictions(preds[j], preds[i]) < 0})
    IN [n \in 1..Len(preds) |-> preds[CHOOSE i \in 1..Len(preds) : Before(i) = n - 1]]

processRoboflowPredictions(result) ==
    IF "predictions" \notin DOMAIN result
    THEN Uniform("white")
    ELSE LET validPredictions == SortPredictions(SelectSeq(result.predictions, ValidPrediction))
         IN [i \in 1..9 |->
                IF i <= Len(validPredictions)
                THEN LET class == toLowerCase(validPredictions[i].class)
                     IN IF class \in DOMAIN colorMapping THEN colorMapping[class] ELSE "white"
                ELSE "white"]

\* detectWithRoboflow(imageData) for the reply of detect.roboflow.com: the colors, or thrown
detectWithRoboflow(imageData, reply) ==
    IF ~reply.ok
    THEN [thrown |-> "Roboflow API error"]
    ELSE [colors |-> processRoboflowPredictions(reply.body)]

CUBE_COLORS == {"white", "yellow", "red", "orange", "green", "blue"}

\* the server's detectWithOpenAI(imageData) for the completion OpenAI gives
\* (reply.body is its parsed content): the colors, or thrown
serverDetectWithOpenAI(imageData, reply) ==
    IF ~reply.ok
    THEN [thrown |-> "OpenAI API error"]
    ELSE LET result == reply.body
         IN IF "colors" \notin DOMAIN result \/ Len(result.colors) # 9
            THEN [thrown |-> "Invalid response format from OpenAI"]
            ELSE IF Len(SelectSeq(result.colors, LAMBDA color : color \in CUBE_COLORS)) # 9
                 THEN [thrown |-> "Invalid colors detected"]
                 ELSE [colors |-> result.colors]

\* router.post('/detect-colors'): the response the client gets
detectColorsRoute(image, provider, reply) ==
    IF image = ""
    THEN [ok |-> FALSE, status |-> 400]
    ELSE IF provider \in {"openai", "roboflow"}
         THEN LET detected == IF provider = "openai"
                              THEN serverDetectWithOpenAI(image, reply)
                              ELSE detectWithRoboflow(image, reply)
              IN IF "thrown" \in DOMAIN detected
                 THEN [ok |-> FALSE, status |-> 500]
                 ELSE [ok |-> TRUE, status |-> 200, colors |-> detected.colors]
         ELSE [ok |-> FALSE, status |-> 400]

(***************************************************************************)
(* The client of the route: detectColorsFromImage                          *)
(***************************************************************************)
\* the values a provider function of the client returns
JsNull == [null |-> TRUE]

JsUndefined == [undefined |-> TRUE]

\* if (openaiResult), if (roboflowResult): null and undefined are falsy, an array is truthy
TruthyNotNull(result) == result # JsNull

Truthy(result) == result # JsNull /\ result # JsUndefined

\* the client's detectWithOpenAI and detectWithRoboflow for what fetch gives:
\* a rejection, a response that is not ok, a body that is not JSON, or the
\* colors of the body
detectWithProvider(response) ==
    IF "rejected" \in DOMAIN response
    THEN JsNull
    ELSE IF ~response.ok
         THEN JsNull
         ELSE IF ~response.json
              THEN JsNull
              ELSE IF "colors" \in DOMAIN response THEN [colors |-> response.colors] ELSE JsUndefined

\* classifyColor(r, g, b): the first of the six colors at the least distance
classifyColor(r, g, b) ==
    LET colors == <<[name |-> "white",  r |-> 255, g |-> 255, b |-> 255],
                    [name |-> "yellow", r |-> 255, g |-> 255, b |-> 0],
                    [name |-> "red",    r |-> 255, g |-> 0,   b |-> 0],
                    [name |-> "orange", r |-> 255, g |-> 165, b |-> 0],
                    [name |-> "green",  r |-> 0,   g |-> 255, b |-> 0],
                    [name |-> "blue",   r |-> 0,   g |-> 0,   b |-> 255]>>
        \* the square of the distance: Math.sqrt keeps the order
        distance(i) == (r - colors[i].r) * (r - colors[i].r)
                        + (g - colors[i].g) * (g - colors[i].g)
                        + (b - colors[i].b) * (b - colors[i].b)
        closest == CHOOSE i \in 1..6 :
                       /\ \A j \in 1..6 : distance(i) <= distance(j)
                       /\ \A j \in 1..(i - 1) : distance(j) > distance(i)
    IN colors[closest].name

\* performBasicColorAnalysis(imageData): what its promise resolves to when the
\* image loads (with or without a 2d context) or fails to load
performBasicColorAnalysis(image, context) ==
    IF ~image.loads
    THEN Uniform("white")
    ELSE [n \in 1..9 |->
             IF context
             THEN classifyColor(image.pixels[n][1], image.pixels[n][2], image.pixels[n][3])
             ELSE "white"]

\* the pixels at the nine places the analysis samples
Pixels ==
    {<<255, 255, 255>>, <<240, 230, 30>>, <<200, 30, 40>>, <<250, 140, 20>>,
     <<20, 160, 60>>, <<0, 0, 0>>}

\* the images: no image, a data URL that does not decode, and photos
Images ==
    {[url |-> "", loads |-> FALSE], [url |-> StoreImage, loads |-> FALSE]}
    \cup {[url |-> StoreImage, loads |-> TRUE, pixels |-> [n \in 1..9 |-> IF n = 5 THEN q ELSE p]] :
             p \in Pixels, q \in {<<255, 255, 255>>, <<20, 30, 220>>}}

\* what OpenAI answers: an error, or a completion whose content parses to this
OpenAIReplies ==
    {[ok |-> FALSE],
     [ok |-> TRUE, body |-> [error |-> "cannot tell"]],
     [ok |-> TRUE, body |-> [colors |-> <<"white">>]],
     [ok |-> TRUE, body |-> [colors |-> [n \in 1..9 |-> IF n = 1 THEN "purple" ELSE "white"]]]}
    \cup {[ok |-> TRUE, body |-> [colors |-> Uniform(color)]] : color \in {"red", "blue"}}

\* what fetch('/api/detect-colors') gives the client: a network error, the
\* response of the route, or a 200 of something in between whose body is not
\* JSON or has no colors
Responses(image, provider, replies) ==
    {[rejected |-> TRUE],
     [ok |-> TRUE, status |-> 200, json |-> FALSE],
     [ok |-> TRUE, status |-> 200, json |-> TRUE]}
    \cup {[json |-> TRUE] @@ detectColorsRoute(image.url, provider, reply) : reply \in replies}

(***************************************************************************)
(* The screens: ImageUpload, ColorDetection and CubeVisualization          *)
(***************************************************************************)
CUBE_FACES == <<"front", "back", "left", "right", "top", "bottom">>

NoEditorData == [null |-> TRUE]

\* delete object[key]
Delete(object, key) == [k \in DOMAIN object \ {key} |-> object[k]]

\* no timer of the auto-play is pending
NoTimer == [null |-> TRUE]

\* AppContent.handleNavigation(screen): the screen shown is unmounted and the
\* new one mounts with its initial state; the timers of the old one are
\* cleared or find it unmounted, its requests go on
handleNavigation(u, screen) ==
    [screen               |-> screen,
     currentFace          |-> 0,
     processingFaces      |-> {},
     processingErrors     |-> EmptyObject,
     showColorEditor      |-> FALSE,
     editorData           |-> NoEditorData,
     showSolvingInterface |-> FALSE,
     timers               |-> {},
     autoPlay             |-> NoTimer,
     fetches              |-> {[faceId |-> f.faceId, mounted |-> FALSE] : f \in u.fetches}]

\* the screen the "Back" button of a screen asks for
BackScreen ==
    [upload |-> "welcome", detection |-> "upload", cube |-> "detection", learning |-> "welcome"]

\* the auto-play effect of CubeVisualization: the timer it leaves pending,
\* with the values handleNextMove closes over
AutoPlayEffectAlways(state) ==
    IF state.solution = NoSolution \/ state.isAnimating
    THEN NoTimer
    ELSE [solution         |-> state.solution,
          currentStepIndex |-> state.currentStepIndex,
          currentMoveIndex |-> state.currentMoveIndex]

AutoPlayEffect(state) ==
    IF ~state.isPlaying \/ state.solution = NoSolution \/ state.isAnimating
    THEN NoTimer
    ELSE [solution         |-> state.solution,
          currentStepIndex |-> state.currentStepIndex,
          currentMoveIndex |-> state.currentMoveIndex]

\* getSolution(faceColors, method): what either copy of RealCubeSolver returns
Solutions(faceColors, method) ==
    {getSolution(faceColors, method)}
    \cup {SolverGetSolution(faceColors, method, random1, random2) :
             random1 \in 0..(Len(phase1Algorithms) - 1),
             random2 \in 0..(Len(phase2Algorithms) - 1)}

\* the effect of CubeVisualization that initializes the solution
InitializeSolution(state, newSolution) ==
    IF state.solution = NoSolution /\ KeyCount(state.faceColors) = 6 /\ newSolution # NoSolution
    THEN setSolution(state, newSolution)
    ELSE state

\* handleStartSolving, on the store
handleStartSolving(state, newSolution) ==
    IF state.solution = NoSolution /\ newSolution # NoSolution
    THEN setSolution(state, newSolution)
    ELSE state

\* what React does after a handler: the render with the new store, then the
\* effects of CubeVisualization when it is the screen.  A change of the store
\* is rendered synchronously (useSyncExternalStore) and the effects of such a
\* render are flushed with it, so the timer pending after a handler is always
\* the one of the last render
Commit(u, state) ==
    /\ IF u.screen = "cube" /\ state.solution = NoSolution /\ KeyCount(state.faceColors) = 6
       THEN \E newSolution \in Solutions(state.faceColors, state.solverMethod) :
               store' = InitializeSolution(state, newSolution)
       ELSE store' = state
    /\ ui' = [u EXCEPT !.autoPlay = IF u.screen = "cube" THEN AutoPlayEffect(store') ELSE NoTimer]

\* the first part of processImageColors, up to the request
processImageColorsStart(u, faceId) ==
    [u EXCEPT !.processingFaces = @ \cup {faceId},
              !.processingErrors = Delete(@, faceId),
              !.fetches = @ \cup {[faceId |-> faceId, mounted |-> TRUE]}]

\* the rest of processImageColors, on the state of the component
processImageColorsEnd(u, faceId, response) ==
    LET shown == IF response.ok
                 THEN [u EXCEPT !.editorData = [faceId |-> faceId, detectedColors |-> response.colors],
                                !.showColorEditor = TRUE]
                 ELSE [u EXCEPT !.processingErrors = Spread(@, faceId, "Failed to detect colors")]
    IN [shown EXCEPT !.processingFaces = @ \ {faceId}]

\* the rest of processImageColors, on the store
processImageColorsStore(state, faceId, response) ==
    IF response.ok THEN state ELSE setFaceColors(state, faceId, Uniform("white"))

\* the predictions of a face whose stickers all have this color, last sticker first
GridPredictions(color, firstConfidence) ==
    [n \in 1..9 |->
        LET i == 9 - n
        IN [class      |-> color,
            confidence |-> IF i = 0 THEN firstConfidence ELSE 90,
            x          |-> 100 * (i % 3) + 50,
            y          |-> 100 * (i \div 3) + 50,
            width      |-> 60,
            height     |-> 60]]

\* the faces whose detection may fail, and the faces the user goes back to
FailingFaces == {"front", "back"}

SelectableFaces == {0, 1}

\* what detect.roboflow.com answers for the image of a face
RoboflowReplies(faceId) ==
    {[kind |-> "detected", ok |-> TRUE,
      body |-> [predictions |-> GridPredictions(Solved[faceId][1], 90)]]}
    \cup (IF faceId \in FailingFaces
          THEN {[kind |-> "error", ok |-> FALSE],
                [kind |-> "malformed", ok |-> TRUE, body |-> [message |-> "Not Found"]]}
          ELSE {})
    \cup (IF faceId = "front"
          THEN {[kind |-> "detected", ok |-> TRUE,
                 body |-> [predictions |-> GridPredictions(Solved[faceId][1], 30)]]}
          ELSE {})

InitScan ==
    /\ NoManager
    /\ input = [fn |-> "none", arg |-> <<>>]
    /\ output = [calls |-> <<>>, ret |-> <<>>]
    /\ store = InitialStore
    /\ ui = handleNavigation([fetches |-> {}], "welcome")
    /\ clock = 0
    /\ hist = <<>>

\* ImageUpload.handleCropComplete(croppedImageUrl), up to the request
HandleCropComplete ==
    /\ ui.screen = "upload"
    /\ ~ui.showColorEditor
    /\ Cardinality(ui.fetches) + Cardinality(ui.timers) < MaxPending
    /\ LET faceId == CUBE_FACES[ui.currentFace + 1]
       IN /\ store' = setFaceImage(store, faceId, StoreImage)
          /\ ui' = processImageColorsStart(ui, faceId)
          /\ input' = [fn |-> "handleCropComplete", arg |-> faceId]
    /\ UNCHANGED <<mgrVars, output, clock, hist>>

\* the response to the request of processImageColors arrives; input keeps
\* the faceColors of the store before it
DetectionResponse(fetch, reply) ==
    /\ fetch \in ui.fetches
    /\ LET response == detectColorsRoute(StoreImage, "roboflow", reply)
           settled == [ui EXCEPT !.fetches = @ \ {fetch}]
           changed == processImageColorsStore(store, fetch.faceId, response)
       IN Commit(IF fetch.mounted
                 THEN processImageColorsEnd(settled, fetch.faceId, response)
                 ELSE settled,
                 changed)
    /\ input' = [fn  |-> "processImageColors",
                 arg |-> [faceId |-> fetch.faceId, reply |-> reply.kind,
                          before |-> store.faceColors]]
    /\ UNCHANGED <<mgrVars, output, clock, hist>>

\* the timers handleColorEditorSave and handleColorEditorCancel start
AdvanceLater(u) ==
    IF u.currentFace < Len(CUBE_FACES) - 1
    THEN [u EXCEPT !.timers = @ \cup {u.currentFace + 1}]
    ELSE u

\* ImageUpload.handleColorEditorSave(colors)
HandleColorEditorSave(colors) ==
    /\ ui.screen = "upload"
    /\ ui.showColorEditor
    /\ ui.editorData # NoEditorData
    /\ store' = setFaceColors(store, ui.editorData.faceId, colors)
    /\ ui' = AdvanceLater([ui EXCEPT !.showColorEditor = FALSE, !.editorData = NoEditorData])
    /\ input' = [fn |-> "handleColorEditorSave", arg |-> ui.editorData.faceId]
    /\ UNCHANGED <<mgrVars, output, clock, hist>>

\* ImageUpload.handleColorEditorCancel()
HandleColorEditorCancel ==
    /\ ui.screen = "upload"
    /\ ui.showColorEditor
    /\ ui.editorData # NoEditorData
    /\ store' = setFaceColors(store, ui.editorData.faceId, ui.editorData.detectedColors)
    /\ ui' = AdvanceLater([ui EXCEPT !.showColorEditor = FALSE, !.editorData = NoEditorData])
    /\ input' = [fn |-> "handleColorEditorCancel", arg |-> ui.editorData.faceId]
    /\ UNCHANGED <<mgrVars, output, clock, hist>>

\* the timer of the auto-advance fires: setCurrentFace(currentFace + 1)
AdvanceTimer(target) ==
    /\ target \in ui.timers
    /\ ui' = [ui EXCEPT !.currentFace = target, !.timers = @ \ {target}]
    /\ input' = [fn |-> "setCurrentFace", arg |-> target]
    /\ UNCHANGED <<mgrVars, output, store, clock, hist>>

\* a click on the button of a face: setCurrentFace(index)
SelectFace(index) ==
    /\ ui.screen = "upload"
    /\ ~ui.showColorEditor
    /\ ui' = [ui EXCEPT !.currentFace = index]
    /\ input' = [fn |-> "setCurrentFace", arg |-> index]
    /\ UNCHANGED <<mgrVars, output, store, clock, hist>>

\* WelcomeScreen: onNavigate('upload') and onNavigate('learning')
Navigate(screen) ==
    /\ ui.screen = "welcome"
    /\ ui' = handleNavigation(ui, screen)
    /\ input' = [fn |-> "onNavigate", arg |-> screen]
    /\ UNCHANGED <<mgrVars, output, store, clock, hist>>

\* AppContent.handleHome()
HandleHome ==
    /\ ui.screen # "welcome"
    /\ store' = resetCube(store)
    /\ ui' = handleNavigation(ui, "welcome")
    /\ input' = [fn |-> "handleHome", arg |-> ui.screen]
    /\ UNCHANGED <<mgrVars, output, clock, hist>>

\* ImageUpload: a click on "Next", enabled when six faces have colors
UploadNext ==
    /\ ui.screen = "upload"
    /\ ~ui.showColorEditor
    /\ KeyCount(store.faceColors) = Len(CUBE_FACES)
    /\ ui' = handleNavigation(ui, "detection")
    /\ input' = [fn |-> "onNext", arg |-> "upload"]
    /\ UNCHANGED <<mgrVars, output, store, clock, hist>>

\* ColorDetection.handleColorChange(face, squareIndex, color)
HandleColorChange(face, squareIndex, color) ==
    /\ ui.screen = "detection"
    /\ Len(hist) < MaxChanges
    /\ LET currentColors == IF face \in DOMAIN store.faceColors
                            THEN store.faceColors[face] ELSE Uniform("white")
           newColors == [currentColors EXCEPT ![squareIndex + 1] = color]
       IN store' = setFaceColors(store, face, newColors)
    /\ hist' = Append(hist, face)
    /\ input' = [fn |-> "handleColorChange", arg |-> face]
    /\ UNCHANGED <<mgrVars, output, ui, clock>>

\* ColorDetection: allProcessed, which enables "View 3D Cube"
allProcessed == KeyCount(store.faceColors) = KeyCount(store.faceImages)

\* ColorDetection: a click on "View 3D Cube"; CubeVisualization mounts and
\* its effect initializes the solution
ViewCube ==
    /\ ui.screen = "detection"
    /\ allProcessed
    /\ Commit(handleNavigation(ui, "cube"), store)
    /\ input' = [fn |-> "onNext", arg |-> "detection"]
    /\ UNCHANGED <<mgrVars, output, clock, hist>>

\* ImageUpload, ColorDetection, CubeVisualization and LearningSection: a click on "Back"
Back ==
    /\ ui.screen \in DOMAIN BackScreen
    /\ ~ui.showColorEditor
    /\ ui' = handleNavigation(ui, BackScreen[ui.screen])
    /\ input' = [fn |-> "onBack", arg |-> ui.screen]
    /\ UNCHANGED <<mgrVars, output, store, clock, hist>>

\* CubeVisualization.handleStartSolving()
HandleStartSolving ==
    /\ ui.screen = "cube"
    /\ ~ui.showSolvingInterface
    /\ \E newSolution \in Solutions(store.faceColors, store.solverMethod) :
          Commit([ui EXCEPT !.showSolvingInterface = TRUE],
                 handleStartSolving(store, newSolution))
    /\ input' = [fn |-> "handleStartSolving", arg |-> <<>>]
    /\ UNCHANGED <<mgrVars, output, clock, hist>>

\* the colors the user leaves the color editor with: as detected, or corrected
EditorColors == {ui.editorData.detectedColors, Solved[ui.editorData.faceId]}

NextScan ==
    \/ \E screen \in {"upload", "learning"} : Navigate(screen)
    \/ HandleHome
    \/ HandleCropComplete
    \/ \E fetch \in ui.fetches : \E reply \in RoboflowReplies(fetch.faceId) :
          DetectionResponse(fetch, reply)
    \/ ui.editorData # NoEditorData /\ \E colors \in EditorColors : HandleColorEditorSave(colors)
    \/ HandleColorEditorCancel
    \/ \E target \in ui.timers : AdvanceTimer(target)
    \/ \E index \in SelectableFaces : SelectFace(index)
    \/ UploadNext
    \/ \E face \in {"front"}, color \in {"white", "red"} : HandleColorChange(face, 8, color)
    \/ ViewCube
    \/ Back
    \/ HandleStartSolving

SpecScan == InitScan /\ [][NextScan]_vars

\* detectColorsFromImage, called for one image after another
InitDetect ==
    /\ NoManager
    /\ input = [fn |-> "none", arg |-> <<>>]
    /\ output = [calls |-> <<>>, ret |-> <<>>]
    /\ NoApp

\* detectColorsFromImage(imageData), up to the first await
DetectColorsFromImage(image) ==
    /\ input.fn = "none"
    /\ input' = [fn |-> "detectColorsFromImage", arg |-> image]
    /\ output' = [calls |-> <<[provider |-> "openai"]>>, ret |-> <<>>]
    /\ UNCHANGED <<mgrVars, appVars>>

\* the provider asked last has not answered
Awaiting(provider) ==
    /\ output.calls # <<>>
    /\ output.calls[Len(output.calls)] = [provider |-> provider]

\* the call asked last got this result
Answered(result) ==
    [output.calls EXCEPT ![Len(output.calls)] = @ @@ [result |-> result]]

\* the request of detectWithOpenAI settles
OpenAIResponds(response) ==
    /\ LET openaiResult == detectWithProvider(response)
       IN output' = IF Truthy(openaiResult)
                    THEN [calls |-> Answered(openaiResult), ret |-> <<[resolved |-> openaiResult]>>]
                    ELSE [calls |-> Append(Answered(openaiResult), [provider |-> "roboflow"]),
                          ret   |-> <<>>]
    /\ UNCHANGED <<mgrVars, input, appVars>>

\* the request of detectWithRoboflow settles; when it gave nothing, 'Both AI
\* services failed' is thrown and caught, and the image is analysed
RoboflowResponds(response) ==
    /\ LET roboflowResult == detectWithProvider(response)
       IN output' = IF Truthy(roboflowResult)
                    THEN [calls |-> Answered(roboflowResult), ret |-> <<[resolved |-> roboflowResult]>>]
                    ELSE [calls |-> Append(Answered(roboflowResult), [provider |-> "basic"]),
                          ret   |-> <<>>]
    /\ UNCHANGED <<mgrVars, input, appVars>>

\* img.onload or img.onerror of performBasicColorAnalysis
ImageSettles(context) ==
    /\ Awaiting("basic")
    /\ LET colors == [colors |-> performBasicColorAnalysis(input.arg, context)]
       IN output' = [calls |-> Answered(colors), ret |-> <<[resolved |-> colors]>>]
    /\ UNCHANGED <<mgrVars, input, appVars>>

\* the caller takes the colors; the next image can be given
DetectionDone ==
    /\ output.ret # <<>>
    /\ input' = [fn |-> "none", arg |-> <<>>]
    /\ output' = [calls |-> <<>>, ret |-> <<>>]
    /\ UNCHANGED <<mgrVars, appVars>>

\* what detect.roboflow.com answers for the image
DetectReplies == UNION {RoboflowReplies(faceId) : faceId \in FailingFaces}

NextDetect ==
    \/ \E image \in Images : DetectColorsFromImage(image)
    \/ /\ Awaiting("openai")
       /\ \E response \in Responses(input.arg, "openai", OpenAIReplies) : OpenAIResponds(response)
    \/ /\ Awaiting("roboflow")
       /\ \E response \in Responses(input.arg, "roboflow", DetectReplies) : RoboflowResponds(response)
    \/ \E context \in BOOLEAN : ImageSettles(context)
    \/ DetectionDone

SpecDetect == InitDetect /\ [][NextDetect]_vars

(***************************************************************************)
(* The solver playback: CubeVisualization and its LearningPanel            *)
(***************************************************************************)
\* CubeVisualization.handleNextMove, with the values the closure holds
handleNextMoveOffByOne(state, solution, currentStepIndex, currentMoveIndex) ==
    IF solution = NoSolution \/ currentStepIndex + 1 \notin DOMAIN solution.steps
    THEN state
    ELSE LET currentStep == solution.steps[currentStepIndex + 1]
         IN IF currentMoveIndex <= Len(currentStep.moves) - 1
            THEN setCurrentMove(state, currentMoveIndex + 1)
            ELSE IF currentStepIndex < Len(solution.steps) - 1
                 THEN setCurrentMove(setCurrentStep(state, currentStepIndex + 1), 0)
                 ELSE setIsPlaying(state, FALSE)

handleNextMove(state, solution, currentStepIndex, currentMoveIndex) ==
    IF solution = NoSolution \/ currentStepIndex + 1 \notin DOMAIN solution.steps
    THEN state
    ELSE LET currentStep == solution.steps[currentStepIndex + 1]
         IN IF currentMoveIndex < Len(currentStep.moves) - 1
            THEN setCurrentMove(state, currentMoveIndex + 1)
            ELSE IF currentStepIndex < Len(solution.steps) - 1
                 THEN setCurrentMove(setCurrentStep(state, currentStepIndex + 1), 0)
                 ELSE setIsPlaying(state, FALSE)

handleStepChange(state, stepIndex) == setIsPlaying(setCurrentStep(state, stepIndex), FALSE)

handleMoveChange(state, moveIndex) == setIsPlaying(setCurrentMove(state, moveIndex), FALSE)

handleReset(state) ==
    setHighlightLayer(
        setIsAnimating(setIsPlaying(setCurrentMove(setCurrentStep(state, 0), 0), FALSE), FALSE),
        "null")

handleMethodChange(state, method, newSolution) ==
    LET cleared == resetSolving(setSolverMethod(state, method))
    IN IF newSolution # NoSolution THEN setSolution(cleared, newSolution) ELSE cleared

\* LearningPanel, which gets the solution and the indices of the store as props
canGoToNextStep(state) == state.currentStepIndex < Len(state.solution.steps) - 1

canGoToPrevStep(state) == state.currentStepIndex > 0

handleNextStep(state) ==
    IF canGoToNextStep(state)
    THEN handleMoveChange(handleStepChange(state, state.currentStepIndex + 1), 0)
    ELSE state

handlePrevStep(state) ==
    IF canGoToPrevStep(state)
    THEN handleMoveChange(handleStepChange(state, state.currentStepIndex - 1), 0)
    ELSE state

\* LearningPanel.handleNextMove
panelHandleNextMove(state) ==
    LET steps == state.solution.steps
        hasStep == state.currentStepIndex + 1 \in DOMAIN steps
    IN IF hasStep /\ state.currentMoveIndex < Len(steps[state.currentStepIndex + 1].moves) - 1
       THEN handleMoveChange(state, state.currentMoveIndex + 1)
       ELSE IF canGoToNextStep(state) THEN handleNextStep(state) ELSE state

handlePrevMove(state) ==
    IF state.currentMoveIndex > 0
    THEN handleMoveChange(state, state.currentMoveIndex - 1)
    ELSE IF canGoToPrevStep(state)
         THEN LET prevStep == state.solution.steps[state.currentStepIndex]
                  last == Len(prevStep.moves) - 1
              IN handleMoveChange(handleStepChange(state, state.currentStepIndex - 1),
                                  IF last > 0 THEN last ELSE 0)
         ELSE state

\* the cubes scanned before the playback: the solved cube, and the one whose
\* front face got nine 'white'
PlaybackCubes == {Solved, [Solved EXCEPT !.front = Uniform("white")]}

\* the store when six faces are scanned and the detection screen is on
InitPlayback ==
    /\ NoManager
    /\ input = [fn |-> "none", arg |-> <<>>]
    /\ output = [calls |-> <<>>, ret |-> <<>>]
    /\ \E cube \in PlaybackCubes :
          store = [InitialStore EXCEPT !.faceImages = [k \in FaceKeySet |-> StoreImage],
                                       !.faceColors = cube,
                                       !.cubeState = "colors_detected"]
    /\ ui = handleNavigation([fetches |-> {}], "detection")
    /\ clock = 0
    /\ hist = <<>>

\* the LearningPanel is rendered
PanelShown == ui.screen = "cube" /\ ui.showSolvingInterface /\ store.solution # NoSolution

\* what a handler of the playback leaves alone
PlaybackUnchanged == UNCHANGED <<mgrVars, output, clock, hist>>

\* the timer of the auto-play fires: handleNextMove() of the render that started it
TimerFires ==
    /\ ui.screen = "cube"
    /\ ui.autoPlay # NoTimer
    /\ Commit(ui, handleNextMove(store, ui.autoPlay.solution, ui.autoPlay.currentStepIndex,
                                 ui.autoPlay.currentMoveIndex))
    /\ input' = [fn |-> "timer", arg |-> <<>>]
    /\ PlaybackUnchanged

\* CubeVisualization.handlePlay()
HandlePlay ==
    /\ PanelShown
    /\ ~store.isPlaying
    /\ Commit(ui, setIsPlaying(store, TRUE))
    /\ input' = [fn |-> "handlePlay", arg |-> <<>>]
    /\ PlaybackUnchanged

\* CubeVisualization.handlePause()
HandlePause ==
    /\ PanelShown
    /\ store.isPlaying
    /\ Commit(ui, setIsPlaying(store, FALSE))
    /\ input' = [fn |-> "handlePause", arg |-> <<>>]
    /\ PlaybackUnchanged

\* CubeVisualization.handleReset()
HandleReset ==
    /\ PanelShown
    /\ Commit(ui, handleReset(store))
    /\ input' = [fn |-> "handleReset", arg |-> <<>>]
    /\ PlaybackUnchanged

\* CubeVisualization.handleMethodChange(method)
HandleMethodChange(method) ==
    /\ PanelShown
    /\ \E newSolution \in Solutions(store.faceColors, method) :
          Commit(ui, handleMethodChange(store, method, newSolution))
    /\ input' = [fn |-> "handleMethodChange", arg |-> <<>>]
    /\ PlaybackUnchanged

\* LearningPanel.handleNextStep()
HandleNextStep ==
    /\ PanelShown
    /\ Commit(ui, handleNextStep(store))
    /\ input' = [fn |-> "handleNextStep", arg |-> <<>>]
    /\ PlaybackUnchanged

\* LearningPanel.handlePrevStep()
HandlePrevStep ==
    /\ PanelShown
    /\ Commit(ui, handlePrevStep(store))
    /\ input' = [fn |-> "handlePrevStep", arg |-> <<>>]
    /\ PlaybackUnchanged

\* LearningPanel.handleNextMove(), behind the "Next Move" button
HandleNextMove ==
    /\ PanelShown
    /\ LET steps == store.solution.steps
           totalMoves == IF store.currentStepIndex + 1 \in DOMAIN steps
                         THEN Len(steps[store.currentStepIndex + 1].moves) ELSE 0
       IN ~(store.currentStepIndex = Len(steps) - 1 /\ store.currentMoveIndex = totalMoves - 1)
    /\ Commit(ui, panelHandleNextMove(store))
    /\ input' = [fn |-> "handleNextMove", arg |-> <<>>]
    /\ PlaybackUnchanged

\* LearningPanel.handlePrevMove(), behind the "Previous Move" button
HandlePrevMove ==
    /\ PanelShown
    /\ ~(store.currentStepIndex = 0 /\ store.currentMoveIndex = 0)
    /\ Commit(ui, handlePrevMove(store))
    /\ input' = [fn |-> "handlePrevMove", arg |-> <<>>]
    /\ PlaybackUnchanged

\* LearningPanel: a click on a step of "Jump to Step"
JumpToStep(index) ==
    /\ PanelShown
    /\ index + 1 \in DOMAIN store.solution.steps
    /\ Commit(ui, handleMoveChange(handleStepChange(store, index), 0))
    /\ input' = [fn |-> "jumpToStep", arg |-> <<>>]
    /\ PlaybackUnchanged

\* CubeVisualization: a click on "Hide Solver"
HideSolver ==
    /\ ui.screen = "cube"
    /\ ui.showSolvingInterface
    /\ Commit([ui EXCEPT !.showSolvingInterface = FALSE], store)
    /\ input' = [fn |-> "setShowSolvingInterface", arg |-> <<>>]
    /\ PlaybackUnchanged

\* the longest list of steps a solver returns: the seven of the layer-by-layer solver
MaxSteps == Len(generateSolution.steps)

NextPlayback ==
    \/ ViewCube
    \/ ui.screen = "cube" /\ Back
    \/ ui.screen = "cube" /\ HandleHome
    \/ HandleStartSolving
    \/ HideSolver
    \/ TimerFires
    \/ HandlePlay
    \/ HandlePause
    \/ HandleReset
    \/ \E method \in {"beginner", "kociemba"} : HandleMethodChange(method)
    \/ HandleNextStep
    \/ HandlePrevStep
    \/ HandleNextMove
    \/ HandlePrevMove
    \/ \E index \in 0..(MaxSteps - 1) : JumpToStep(index)

SpecPlayback == InitPlayback /\ [][NextPlayback]_vars

\* the playback when the user leaves the screen alone while it plays: every
\* input but "Pause", taken only while nothing plays
UserInput ==
    \/ ViewCube
    \/ ui.screen = "cube" /\ Back
    \/ ui.screen = "cube" /\ HandleHome
    \/ HandleStartSolving
    \/ HideSolver
    \/ HandlePlay
    \/ HandleReset
    \/ \E method \in {"beginner", "kociemba"} : HandleMethodChange(method)
    \/ HandleNextStep
    \/ HandlePrevStep
    \/ HandleNextMove
    \/ HandlePrevMove
    \/ \E index \in 0..(MaxSteps - 1) : JumpToStep(index)

NextAutoPlay ==
    \/ TimerFires
    \/ ~store.isPlaying /\ UserInput

\* a timer set by setTimeout fires unless it is cleared
SpecAutoPlay == InitPlayback /\ [][NextAutoPlay]_vars /\ WF_vars(TimerFires)

(***************************************************************************)
(* The cube drawn by CubeAnimator: where the stickers of a face sit        *)
(***************************************************************************)
\* faulty variant: the columns of the back face are not mirrored
getCubeletGridPositionUnmirrored(face, coord1, coord2) ==
    LET mapCoord(c) == c + 1
        col == CASE face \in {"front", "back", "top", "bottom"} -> mapCoord(coord1)
                 [] face = "right"  -> mapCoord(-coord2)
                 [] face = "left"   -> mapCoord(coord2)
                 [] OTHER           -> 0
        row == CASE face \in {"front", "back", "bottom"} -> mapCoord(-coord2)
                 [] face \in {"right", "left"} -> mapCoord(-coord1)
                 [] face = "top"    -> mapCoord(coord2)
                 [] OTHER           -> 0
    IN row * 3 + col

\* getCubeletGridPosition(face, coord1, coord2)
getCubeletGridPosition(face, coord1, coord2) ==
    LET mapCoord(c) == c + 1
        col == CASE face = "front"  -> mapCoord(coord1)
                 [] face = "back"   -> mapCoord(-coord1)
                 [] face = "right"  -> mapCoord(-coord2)
                 [] face = "left"   -> mapCoord(coord2)
                 [] face = "top"    -> mapCoord(coord1)
                 [] face = "bottom" -> mapCoord(coord1)
                 [] OTHER           -> 0
        row == CASE face = "front"  -> mapCoord(-coord2)
                 [] face = "back"   -> mapCoord(-coord2)
                 [] face = "right"  -> mapCoord(-coord1)
                 [] face = "left"   -> mapCoord(-coord1)
                 [] face = "top"    -> mapCoord(coord2)
                 [] face = "bottom" -> mapCoord(-coord2)
                 [] OTHER           -> 0
    IN row * 3 + col

\* shouldHighlightCubelet(x, y, z, currentMove, highlightLayer) for a move of this face
shouldHighlightCubelet(x, y, z, face) ==
    CASE face = "R" -> x = 1
      [] face = "L" -> x = -1
      [] face = "U" -> y = 1
      [] face = "D" -> y = -1
      [] face = "F" -> z = 1
      [] face = "B" -> z = -1
      [] OTHER      -> FALSE

\* the cubelets the loop of CubeAnimator draws
Cubelets == {p \in {-1, 0, 1} \X {-1, 0, 1} \X {-1, 0, 1} : p # <<0, 0, 0>>}

\* the side of the cube on which the loop draws each face
FaceNormal ==
    [right |-> <<1, 0, 0>>, left   |-> <<-1, 0, 0>>,
     top   |-> <<0, 1, 0>>, bottom |-> <<0, -1, 0>>,
     front |-> <<0, 0, 1>>, back   |-> <<0, 0, -1>>]

\* the cubelet shows a sticker of the face
OnFace(face, p) == p[1] * FaceNormal[face][1] + p[2] * FaceNormal[face][2] + p[3] * FaceNormal[face][3] = 1

\* the index of faceColors[face] the loop reads for the cubelet
GridPositionOf(face, p) ==
    IF face \in {"right", "left"} THEN getCubeletGridPosition(face, p[2], p[3])
    ELSE IF face \in {"top", "bottom"} THEN getCubeletGridPosition(face, p[1], p[3])
    ELSE getCubeletGridPosition(face, p[1], p[2])

(***************************************************************************)
(* Properties of the move engine                                           *)
(***************************************************************************)
Quarter(f) == [face |-> f, rotation |-> 1]

\* the moves log[i..j] are all the quarter turn of face f
QuarterRun(f, i, j) == \A k \in i..j : log[k] = Quarter(f)

\* the value new CubeStateManager(v).applyMove(move) returns
ApplyMoveTo(v, move) ==
    LET r == performMove(ArgHeap(v), ArgObject, move)
    IN Value(r.heap, r.state)

AllStickers(v) == Stickers(v, 1)

SameMultiset(u, v) ==
    LET a == AllStickers(u)
        b == AllStickers(v)
    IN \A c \in {a[i] : i \in 1..Len(a)} \cup {b[i] : i \in 1..Len(b)} :
          CountOf(a, c) = CountOf(b, c)

\* C1: four quarter turns of one face in a row, applied with applyMove to a
\* state of six faces of 9 stickers, give back that state sticker for sticker.
C1_FourQuarterTurns ==
    \A f \in Faces : \A i \in 1..(Len(log) - 3) :
        (SixFaces(trail[i]) /\ QuarterRun(f, i, i + 3))
            => /\ trail[i + 4] = trail[i]
               /\ (i + 3 = Len(log) => Value(heap, currentState) = trail[i])

C1_Witness ==
    /\ Len(log) = 4
    /\ QuarterRun("B", 1, 4)
    /\ trail[1] = Labelled
    /\ trail[2] # Labelled /\ trail[3] # Labelled /\ trail[4] # Labelled
    /\ Value(heap, currentState) = Labelled

\* C2: the move (f,1) followed by the move (f,3) gives back the state it
\* started from, for each of the six faces.
C2_QuarterThenThree ==
    \A f \in Faces : \A i \in 1..(Len(log) - 1) :
        (SixFaces(trail[i]) /\ log[i] = Quarter(f)
                            /\ log[i + 1] = [face |-> f, rotation |-> 3])
            => /\ trail[i + 2] = trail[i]
               /\ (i + 1 = Len(log) => Value(heap, currentState) = trail[i])

C2_Witness ==
    /\ log = <<Quarter("L"), [face |-> "L", rotation |-> 3]>>
    /\ trail[1] = Labelled
    /\ trail[2] # Labelled
    /\ Value(heap, currentState) = Labelled

\* C3: two quarter turns (f,1) give the state one move (f,2) gives, and
\* three quarter turns give the state one move (f,3) gives.
C3_TurnCountComposition ==
    \A f \in Faces : \A i \in 1..(Len(log) - 1) :
        (SixFaces(trail[i]) /\ QuarterRun(f, i, i + 1))
            => /\ trail[i + 2] = ApplyMoveTo(trail[i], [face |-> f, rotation |-> 2])
               /\ (i + 2 <= Len(log) /\ log[i + 2] = Quarter(f))
                     => trail[i + 3] = ApplyMoveTo(trail[i], [face |-> f, rotation |-> 3])

C3_Witness ==
    /\ Len(log) = 3
    /\ QuarterRun("F", 1, 3)
    /\ trail[1] = Labelled
    /\ trail[3] = ApplyMoveTo(Labelled, [face |-> "F", rotation |-> 2])
    /\ trail[4] = ApplyMoveTo(Labelled, [face |-> "F", rotation |-> 3])
    /\ trail[3] # trail[2] /\ trail[4] # trail[3] /\ trail[4] # trail[2]

\* C4: applyMove keeps the multiset of the 54 sticker colors, whether or not
\* the state passes the validator; so the color counts after any sequence of
\* moves are those of the state the sequence started from.
C4_StickerConservation ==
    (Len(log) > 0 /\ SixFaces(trail[Len(log)]))
        => /\ SameMultiset(trail[Len(log)], trail[Len(log) + 1])
           /\ SameMultiset(trail[Len(log)], Value(heap, currentState))
           /\ SixFaces(trail[1]) => SameMultiset(trail[1], trail[Len(log) + 1])

C4_Witness ==
    /\ Len(log) = 2
    /\ trail[1] = Labelled
    /\ ~validateCubeState(trail[1]).isValid
    /\ log[1].face = "D" /\ log[2].face = "R" /\ log[2].rotation = 3
    /\ trail[2] # trail[1] /\ trail[3] # trail[2] /\ trail[3] # trail[1]
    /\ \A k \in FaceKeySet : \A i \in 1..9 : CountOf(AllStickers(trail[3]), Labelled[k][i]) = 1

\* the moves log[i..i+2n-1] are n moves followed by their inverses in reverse order
UndoneRun(i, n) ==
    /\ i + 2 * n - 1 <= Len(log)
    /\ \A k \in 1..n : log[i + 2 * n - k] = Inverse(log[i + k - 1])

\* C5: a sequence of moves followed by the inverse sequence in reverse order,
\* each (f,t) replaced by (f,4-t), makes getCurrentState equal to the state
\* the sequence started from.
C5_ScrambleThenInverse ==
    \A i \in 1..Len(log) : \A n \in 1..Len(log) :
        (SixFaces(trail[i]) /\ UndoneRun(i, n))
            => /\ trail[i + 2 * n] = trail[i]
               /\ (i + 2 * n - 1 = Len(log) => Value(heap, currentState) = trail[i])

C5_Witness ==
    /\ Len(log) = 4
    /\ UndoneRun(1, 2)
    /\ log[1] = [face |-> "R", rotation |-> 1]
    /\ log[2] = [face |-> "U", rotation |-> 2]
    /\ trail[1] = Labelled
    /\ trail[2] # Labelled /\ trail[3] # Labelled /\ trail[4] # Labelled
    /\ trail[3] # trail[2]
    /\ Value(heap, currentState) = Labelled

Strip(v, k, idx) == <<v[k][idx[1] + 1], v[k][idx[2] + 1], v[k][idx[3] + 1]>>

SameFaceMultiset(a, b) ==
    \A c \in {a[i] : i \in 1..Len(a)} \cup {b[i] : i \in 1..Len(b)} :
        CountOf(a, c) = CountOf(b, c)

\* C6: the move (R,1) permutes the right face among its own 9 stickers and
\* cycles the strips front[2,5,8] -> top[2,5,8] -> back[6,3,0] -> bottom[2,5,8]
\* -> front[2,5,8]; on the solved state the right face stays uniformly green.
C6_RightQuarterTurn ==
    \A i \in 1..Len(log) :
        (SixFaces(trail[i]) /\ log[i] = Quarter("R"))
            => LET old == trail[i]
                   new == trail[i + 1]
               IN /\ SameFaceMultiset(old.right, new.right)
                  /\ Strip(new, "top", <<2, 5, 8>>) = Strip(old, "front", <<2, 5, 8>>)
                  /\ Strip(new, "back", <<6, 3, 0>>) = Strip(old, "top", <<2, 5, 8>>)
                  /\ Strip(new, "bottom", <<2, 5, 8>>) = Strip(old, "back", <<6, 3, 0>>)
                  /\ Strip(new, "front", <<2, 5, 8>>) = Strip(old, "bottom", <<2, 5, 8>>)
                  /\ old = Solved => new.right = Uniform("green")

C6_Witness ==
    /\ log = <<Quarter("R")>>
    /\ trail[1] = Solved
    /\ trail[2].right = Uniform("green")
    /\ Strip(trail[2], "top", <<2, 5, 8>>) = <<"red", "red", "red">>
    /\ Strip(trail[2], "back", <<6, 3, 0>>) = <<"white", "white", "white">>
    /\ Strip(trail[2], "bottom", <<2, 5, 8>>) = <<"orange", "orange", "orange">>
    /\ Strip(trail[2], "front", <<2, 5, 8>>) = <<"yellow", "yellow", "yellow">>

\* the face a move letter turns, and the face opposite to it
KeyOf(f) ==
    CASE f = "R" -> "right" [] f = "L" -> "left" [] f = "U" -> "top"
      [] f = "D" -> "bottom" [] f = "F" -> "front" [] f = "B" -> "back"

OppositeKey(k) ==
    CASE k = "right" -> "left" [] k = "left" -> "right" [] k = "top" -> "bottom"
      [] k = "bottom" -> "top" [] k = "front" -> "back" [] k = "back" -> "front"

\* the outer rows and columns of a face
EdgeLines == {{0, 1, 2}, {6, 7, 8}, {0, 3, 6}, {2, 5, 8}}

Changed(old, new, k) == {i \in 0..8 : old[k][i + 1] # new[k][i + 1]}

\* C7: a move on face f leaves the face opposite f as it was, and on each of
\* the four adjacent faces it changes stickers of one 3-sticker strip only.
C7_MoveFrame ==
    \A i \in 1..Len(log) :
        SixFaces(trail[i])
            => LET old == trail[i]
                   new == trail[i + 1]
                   own == KeyOf(log[i].face)
               IN /\ SixFaces(new)
                  /\ new[OppositeKey(own)] = old[OppositeKey(own)]
                  /\ \A k \in FaceKeySet \ {own, OppositeKey(own)} :
                        \E line \in EdgeLines : Changed(old, new, k) \subseteq line

C7_Witness ==
    /\ log = <<[face |-> "U", rotation |-> 1]>>
    /\ trail[1] = Labelled
    /\ Changed(trail[1], trail[2], "top") = (0..8) \ {4}
    /\ Changed(trail[1], trail[2], "bottom") = {}
    /\ \A k \in {"front", "back", "left", "right"} :
          Changed(trail[1], trail[2], k) = {0, 1, 2}

\* C8: the object passed to the constructor and every object applyMove or
\* getCurrentState returned keep the sticker values they had when handed
\* over, whatever applyMove and reset calls follow.
C8_NoInPlaceMutation == \A e \in held : Value(heap, e.obj) = e.seen

C8_Witness ==
    /\ resets = 1 /\ moves = 1 /\ Len(log) = 1
    /\ Cardinality(held) = 2
    /\ \E e \in held : e.obj = initialState /\ e.seen = Labelled
    /\ \E e \in held : e.obj = currentState /\ e.seen # Labelled
    /\ Value(heap, initialState) = Labelled
    /\ Value(heap, currentState) # Labelled

(***************************************************************************)
(* Properties of rotateFace and validateCubeState                          *)
(***************************************************************************)
Rearranged(face, idx) == [i \in 1..9 |-> face[idx[i] + 1]]

FaceBefore(j) == IF j = 1 THEN input.arg ELSE output.ret[j - 1]

\* C9: on a 9-sticker face the clockwise rotation gives
\* new[0..8] = old[6,3,0,7,4,1,8,5,2], the counter-clockwise rotation gives
\* new[0..8] = old[2,5,8,1,4,7,0,3,6], and each undoes the other.
C9_RotateFace ==
    (input.fn = "rotateFace" /\ Len(input.arg) = 9)
        => /\ \A j \in 1..Len(output.calls) :
                 output.ret[j] =
                    IF output.calls[j]
                    THEN Rearranged(FaceBefore(j), <<6, 3, 0, 7, 4, 1, 8, 5, 2>>)
                    ELSE Rearranged(FaceBefore(j), <<2, 5, 8, 1, 4, 7, 0, 3, 6>>)
           /\ \A j \in 2..Len(output.calls) :
                 output.calls[j] # output.calls[j - 1] => output.ret[j] = FaceBefore(j - 1)

C9_Witness ==
    /\ input.fn = "rotateFace"
    /\ input.arg = Labelled.top
    /\ output.calls = <<TRUE, FALSE>>
    /\ output.ret[1] = <<"top6", "top3", "top0", "top7", "top4", "top1", "top8", "top5", "top2">>
    /\ output.ret[2] = input.arg

\* the stickers of an object, the number of them of one color, the colors present
Positions(fc) == UNION {{<<k, i>> : i \in 1..Len(fc[k])} : k \in DOMAIN fc}

Total(fc, c) == Cardinality({p \in Positions(fc) : fc[p[1]][p[2]] = c})

Present(fc) == {fc[p[1]][p[2]] : p \in Positions(fc)}

Canonical == {standardColors[i] : i \in 1..6}

ErrorsWhere(errors, kind, c) ==
    {j \in 1..Len(errors) : errors[j].kind = kind /\ errors[j].color = c}

\* C10: validateCubeState reports exactly one error for each canonical color
\* whose total count is not 9, naming the color and the count found, and one
\* for each other color present; isValid is true iff there is no error. Six
\* uniform faces in six distinct colors give no error; 10 white and 8 yellow
\* stickers give exactly two.
C10_Validator ==
    (input.fn = "validateCubeState" /\ output.calls # <<>>)
        => LET fc == input.arg
               errors == output.ret.errors
           IN /\ \A c \in Canonical :
                    IF Total(fc, c) # 9
                    THEN /\ Cardinality(ErrorsWhere(errors, "count", c)) = 1
                         /\ \A j \in ErrorsWhere(errors, "count", c) :
                               errors[j].found = Total(fc, c)
                    ELSE ErrorsWhere(errors, "count", c) = {}
              /\ \A c \in Present(fc) \ Canonical :
                    Cardinality(ErrorsWhere(errors, "unknown", c)) = 1
              /\ Len(errors) = Cardinality({c \in Canonical : Total(fc, c) # 9})
                               + Cardinality(Present(fc) \ Canonical)
              /\ output.ret.isValid <=> (errors = <<>>)
              /\ fc \in UniformStates => errors = <<>>
              /\ (/\ Total(fc, "white") = 10 /\ Total(fc, "yellow") = 8
                  /\ \A c \in Canonical \ {"white", "yellow"} : Total(fc, c) = 9)
                    => errors = <<CountError("white", 10), CountError("yellow", 8)>>

C10_Witness ==
    /\ input.fn = "validateCubeState"
    /\ input.arg = Imbalanced
    /\ output.calls # <<>>
    /\ output.ret.isValid = FALSE
    /\ output.ret.errors = <<CountError("white", 10), CountError("yellow", 8)>>

(***************************************************************************)
(* Properties of cubeUtils                                                 *)
(***************************************************************************)
\* C11: for every sequence m of moves with a face in {R,L,U,D,F,B} and a
\* rotation in {1,2,3}, the empty sequence included, parseNotation applied
\* to the string algorithmToNotation prints for m returns m.
C11_NotationRoundTrip ==
    (input.fn = "algorithmToNotation" /\ Len(output.calls) = 2)
        => output.ret[2] = input.arg.moves

C11_Witness ==
    /\ input.fn = "algorithmToNotation"
    /\ output.calls = <<"algorithmToNotation", "parseNotation">>
    /\ Len(input.arg.moves) = 2
    /\ input.arg.moves[1].rotation = 3
    /\ input.arg.moves[2].rotation = 2
    /\ output.ret[1] = <<input.arg.moves[1].face, "'", " ", input.arg.moves[2].face, "2">>
    /\ output.ret[2] = input.arg.moves

\* the maximal runs of characters that are not whitespace
RECURSIVE Runs(_)
Runs(s) ==
    IF s = <<>> THEN << <<>> >>
    ELSE LET rest == Runs(Tail(s))
         IN IF Head(s) \in WhiteSpace
            THEN << <<>> >> \o rest
            ELSE << <<Head(s)>> \o rest[1] >> \o Tail(rest)

WhitespaceTokens(s) == SelectSeq(Runs(s), LAMBDA t : t # <<>>)

Follows(token, c) == \E i \in 2..Len(token) : token[i] = c

RECURSIVE MovesOfTokens(_)
MovesOfTokens(tokens) ==
    IF tokens = <<>> THEN <<>>
    ELSE LET token == Head(tokens)
             rotation == IF Follows(token, "2") THEN 2
                         ELSE IF Follows(token, "'") THEN 3
                         ELSE 1
         IN (IF token[1] \in Faces THEN <<[face |-> token[1], rotation |-> rotation]>> ELSE <<>>)
            \o MovesOfTokens(Tail(tokens))

\* C12: parseNotation tokenizes its input on whitespace and returns one move
\* per token that starts with a face letter, in input order, with rotation 2
\* when the letter is followed by '2', 3 when followed by an apostrophe and 1
\* otherwise; the other tokens contribute no move.
C12_WhitespaceTokens ==
    (input.fn = "parseNotation" /\ output.calls # <<>>)
        => output.ret[1] = MovesOfTokens(WhitespaceTokens(input.arg))

AllEqual(face) == Cardinality({face[j] : j \in 1..Len(face)}) = 1

\* C13: isCubeSolved returns true iff each of the six faces has 9 stickers
\* that are all equal to each other; the six colors need not be distinct
\* nor follow a center-color convention.
C13_IsCubeSolved ==
    (input.fn = "isCubeSolved" /\ output.calls # <<>>)
        => (output.ret[1] <=>
               /\ FaceKeySet \subseteq DOMAIN input.arg
               /\ \A k \in FaceKeySet : Len(input.arg[k]) = 9 /\ AllEqual(input.arg[k]))

C13_Witness ==
    /\ input.fn = "isCubeSolved"
    /\ output.calls # <<>>
    /\ output.ret[1] = TRUE
    /\ input.arg.front = input.arg.back
    /\ input.arg.top = Uniform("red")

\* the moves a result of the functions of cubeUtils and of the solvers holds
Produced ==
    IF output.calls = <<>> THEN {}
    ELSE LET fn == output.calls[Len(output.calls)]
             ret == output.ret[Len(output.ret)]
         IN IF fn \in {"parseNotation", "optimizeMoves"}
            THEN {ret[i] : i \in 1..Len(ret)}
            ELSE IF fn \in {"getSolution", "Solver.getSolution"} /\ ret # NoSolution
            THEN UNION {{ret.steps[i].moves[j] : j \in 1..Len(ret.steps[i].moves)} :
                           i \in 1..Len(ret.steps)}
            ELSE {}

\* C14: every move the program produces has a face in {R,L,U,D,F,B} and a
\* rotation in {1,2,3}: the moves parseNotation returns for any string, the
\* moves optimizeMoves returns for moves with rotations in {1,2,3}, and the
\* moves of every step of every solution getSolution returns.
C14_MovesWellFormed ==
    \A move \in Produced :
        /\ DOMAIN move = {"face", "rotation"}
        /\ move.face \in {"R", "L", "U", "D", "F", "B"}
        /\ move.rotation \in {1, 2, 3}

C14_Witness ==
    /\ input.fn = "optimizeMoves"
    /\ output.calls = <<"optimizeMoves">>
    /\ Len(input.arg) = 2
    /\ input.arg[1].rotation + input.arg[2].rotation = 5
    /\ Produced = {[face |-> input.arg[1].face, rotation |-> 1]}

(***************************************************************************)
(* Properties of CubeStateManager: malformed input and reset               *)
(***************************************************************************)
\* a manager exists whose state has a face that is not 9 long
HoldsShortFace ==
    /\ initialState # NoObject
    /\ \E k \in FaceKeySet : Len(heap[initialState[k]]) # 9

\* C15: constructing a cube state in which one face has only 8 entries
\* fails: no CubeStateManager holding such a state exists and no move is
\* ever applied to it.
C15_InvalidLength == ~HoldsShortFace /\ (input.fn = "CubeStateManager" => moves = 0)

\* the sticker values of the object the constructor was given
ConstructedWith == {e.seen : e \in {x \in held : x.obj = ArgObject}}

RECURSIVE ApplyAllTo(_, _)
ApplyAllTo(v, l) == IF l = <<>> THEN v ELSE ApplyAllTo(ApplyMoveTo(v, Head(l)), Tail(l))

\* C19: after any sequence of applyMove calls, reset() makes the current
\* state equal, sticker for sticker, to the state the manager was
\* constructed with, and the moves applied after the reset act on that state.
C19_ResetRestores ==
    resets > 0 =>
        \A v \in ConstructedWith :
            /\ Value(heap, initialState) = v
            /\ Value(heap, currentState) = ApplyAllTo(v, log)

C19_Witness ==
    /\ resets = 1 /\ moves = 2 /\ Len(log) = 1
    /\ ConstructedWith = {Labelled}
    /\ log[1].face = "F"
    /\ Cardinality(held) = 3
    /\ Value(heap, currentState) = ApplyMoveTo(Labelled, log[1])

(***************************************************************************)
(* Properties of the useCube store                                         *)
(***************************************************************************)
\* C16: after loadCube(id), for every saveCube call that returned id (and
\* whose cube was not deleted since), faceColors is what the store held at
\* the time of that call, whatever calls happened in between
C16_SaveLoadRoundTrip ==
    input.fn = "loadCube" =>
        \A n \in DOMAIN hist :
            hist[n].id = input.arg /\ ~hist[n].deleted =>
                store.faceColors = hist[n].faceColors

(***************************************************************************)
(* Properties of the screens                                               *)
(***************************************************************************)
\* the list validateCubeState returns for the colors in the store, which the
\* detection screen shows when the state is not valid
ShownErrors == validateCubeState(store.faceColors).errors

\* C17: while the scanned colors fail validation the 3D cube screen is not
\* on, no solve is started, and the detection screen shows the error list
C17_InvalidBlocksSolve ==
    ~validateCubeState(store.faceColors).isValid =>
        /\ ui.screen # "cube"
        /\ input.fn # "handleStartSolving"
        /\ ui.screen = "detection" => ShownErrors # <<>>

\* C18: when a detection has failed or got a malformed answer, the face is
\* marked as failed and no face was given colors by it
C18_FailClosed ==
    (input.fn = "processImageColors" /\ input.arg.reply # "detected") =>
        /\ input.arg.faceId \in DOMAIN ui.processingErrors
        /\ store.faceColors = input.arg.before

(***************************************************************************)
(* Properties of the solver playback                                       *)
(***************************************************************************)
\* the indices of the store point at a move of the solution
IndicesValid(state) ==
    /\ state.currentStepIndex \in 0..(Len(state.solution.steps) - 1)
    /\ state.currentMoveIndex \in
           0..(Len(state.solution.steps[state.currentStepIndex + 1].moves) - 1)

\* C20: after every handler of the playback and every firing of the
\* auto-play timer, when the store has a solution, currentStepIndex is an
\* index of solution.steps and currentMoveIndex an index of that step's moves
C20_PlaybackIndices == store.solution # NoSolution => IndicesValid(store)

\* the auto-play timer has played a solution got by a method change to its
\* last move and stopped
C20_Witness ==
    /\ input.fn = "timer"
    /\ store.solution # NoSolution
    /\ store.solverMethod = "kociemba"
    /\ ~store.isPlaying
    /\ store.currentStepIndex = Len(store.solution.steps) - 1
    /\ store.currentMoveIndex = Len(store.solution.steps[store.currentStepIndex + 1].moves) - 1

\* the last move of the last step is the one shown
AtEnd(state) ==
    LET steps == state.solution.steps
    IN /\ state.currentStepIndex = Len(steps) - 1
       /\ state.currentMoveIndex >= Len(steps[Len(steps)].moves) - 1

\* the store after the move that follows the one shown, in solution order
Successor(state) ==
    LET steps == state.solution.steps
    IN IF state.currentMoveIndex < Len(steps[state.currentStepIndex + 1].moves) - 1
       THEN [state EXCEPT !.currentMoveIndex = @ + 1]
       ELSE [state EXCEPT !.currentStepIndex = @ + 1, !.currentMoveIndex = 0]

\* C21: while a solution plays and the user does nothing, every firing of the
\* timer shows the next move in solution order (after the last move of a step,
\* move 0 of the next step); the last move of the last step is reached, then
\* isPlaying becomes false, and no timer changes the store while nothing plays
C21_AutoPlayRuns ==
    /\ [][input'.fn = "timer" =>
             /\ store.isPlaying
             /\ store.solution # NoSolution
             /\ store' = IF AtEnd(store) THEN [store EXCEPT !.isPlaying = FALSE]
                                         ELSE Successor(store)]_store
    /\ (store.isPlaying /\ store.solution # NoSolution /\ ui.screen = "cube")
          ~> (~store.isPlaying /\ store.solution # NoSolution /\ AtEnd(store))

\* the layer-by-layer solution was played to its end and the timer stopped it
C21_Witness ==
    /\ input.fn = "timer"
    /\ store.solution # NoSolution
    /\ store.solverMethod = "beginner"
    /\ ~store.isPlaying
    /\ AtEnd(store)
    /\ ui.autoPlay = NoTimer

\* the providers asked so far, in the order they were asked
Asked == [n \in DOMAIN output.calls |-> output.calls[n].provider]

\* the call gave colors
GaveColors(call) == "result" \in DOMAIN call /\ "colors" \in DOMAIN call.result

\* C22: detectColorsFromImage asks OpenAI first, Roboflow only when OpenAI
\* gave no colors, analyses the image itself only when neither gave colors,
\* and whatever fails it resolves, to an array of colors
C22_DetectionFallbacks ==
    input.fn = "detectColorsFromImage" =>
        /\ \E n \in 1..3 : Asked = SubSeq(<<"openai", "roboflow", "basic">>, 1, n)
        /\ \A n \in 1..(Len(output.calls) - 1) : ~GaveColors(output.calls[n])
        /\ output.ret # <<>> =>
              /\ "resolved" \in DOMAIN output.ret[1]
              /\ "colors" \in DOMAIN output.ret[1].resolved
              /\ \A n \in DOMAIN output.ret[1].resolved.colors :
                     output.ret[1].resolved.colors[n] \in CUBE_COLORS
              /\ GaveColors(output.calls[Len(output.calls)])

\* both providers failed for a photo and the analysis of its pixels gave the colors
C22_Witness ==
    /\ input.fn = "detectColorsFromImage"
    /\ input.arg.loads
    /\ Asked = <<"openai", "roboflow", "basic">>
    /\ output.calls[1].result = JsNull
    /\ output.calls[2].result = JsUndefined
    /\ output.ret # <<>>
    /\ output.ret[1].resolved.colors[1] = "orange"

\* all six faces are there and have 9 stickers
SixFacesOfNine(s) == \A k \in FaceKeySet : k \in DOMAIN s /\ Len(s[k]) = 9

\* the stickers of this color on the whole cube
TimesOnCube(s, color) ==
    Cardinality({p \in UNION {{k} \X DOMAIN s[k] : k \in DOMAIN s} : s[p[1]][p[2]] = color})

\* C23: getSolution (either copy) returns null unless the solver can solve:
\* 'kociemba' gives a solution exactly for six faces of 9 stickers with each
\* canonical color 9 times, 'beginner' exactly for six faces of 9 stickers,
\* whatever the colors
C23_GetSolutionNull ==
    (input.fn = "getSolution" /\ output.calls # <<>>) =>
        LET s == input.arg.cubeState
            solved == output.ret[1] # NoSolution
        IN IF input.arg.method = "kociemba"
           THEN solved <=> /\ SixFacesOfNine(s)
                           /\ \A color \in CUBE_COLORS : TimesOnCube(s, color) = 9
           ELSE solved <=> SixFacesOfNine(s)

\* the layer-by-layer solver gave a solution for a cube with a color too many
C23_Witness ==
    /\ input.fn = "getSolution"
    /\ output.calls = <<"getSolution">>
    /\ input.arg.method = "beginner"
    /\ SixFacesOfNine(input.arg.cubeState)
    /\ TimesOnCube(input.arg.cubeState, "white") > 9
    /\ output.ret[1] # NoSolution

\* the moves mvs[i..j] are turns of one face
SameFace(mvs, i, j) == \A k \in i..j : mvs[k].face = mvs[i].face

\* the length of the longest run of turns of one face
LongestRun(mvs) ==
    IF mvs = <<>> THEN 0
    ELSE CHOOSE n \in 1..Len(mvs) :
             /\ \E i \in 1..(Len(mvs) - n + 1) : SameFace(mvs, i, i + n - 1)
             /\ \A i \in 1..(Len(mvs) - n) : ~SameFace(mvs, i, i + n)

\* C24: validateMoveSequence accepts a sequence iff no more than 3 moves of
\* the same face follow each other: a run of three is accepted, a run of
\* four or more is rejected
C24_RunsOfThreeAccepted ==
    (input.fn = "validateMoveSequence" /\ output.calls # <<>>) =>
        (output.ret[1] <=> LongestRun(input.arg) <= 3)

\* C25: applying optimizeMoves(m) move by move to a state of six faces of 9
\* stickers gives the same final state as applying m move by move, for every
\* sequence m of moves with rotations 1, 2 and 3
C25_OptimizeKeepsState ==
    (input.fn = "optimizeMoves" /\ output.calls # <<>>) =>
        \A s \in InitialStates : ApplyAllTo(s, output.ret[1]) = ApplyAllTo(s, input.arg)

\* four turns of the right face were combined into one quarter turn
C25_Witness ==
    /\ input.fn = "optimizeMoves"
    /\ Len(input.arg) = 4
    /\ output.calls = <<"optimizeMoves">>
    /\ output.ret[1] = <<[face |-> "R", rotation |-> 1]>>
    /\ ApplyAllTo(Labelled, input.arg) = ApplyMoveTo(Labelled, [face |-> "R", rotation |-> 1])
    /\ ApplyAllTo(Labelled, input.arg) # Labelled

\* no two moves next to each other turn the same face
FullyReduced(mvs) == \A i \in 1..(Len(mvs) - 1) : mvs[i].face # mvs[i + 1].face

\* C26: the output of optimizeMoves never has two adjacent moves on the same
\* face, and optimizing it again changes nothing
C26_OptimizeIdempotent ==
    (input.fn = "optimizeMoves" /\ output.calls # <<>>) =>
        /\ FullyReduced(output.ret[1])
        /\ optimizeMoves(output.ret[1]) = output.ret[1]

\* a quarter turn of space, clockwise for one who looks at the face from
\* outside the cube (x to the right, y up, z to the front)
Turn(face, v) ==
    CASE face = "R" -> <<v[1], v[3], -v[2]>>
      [] face = "L" -> <<v[1], -v[3], v[2]>>
      [] face = "U" -> <<-v[3], v[2], v[1]>>
      [] face = "D" -> <<v[3], v[2], -v[1]>>
      [] face = "F" -> <<v[2], -v[1], v[3]>>
      [] face = "B" -> <<-v[2], v[1], v[3]>>

\* where the turn takes a vector from
TurnBack(face, v) == Turn(face, Turn(face, Turn(face, v)))

\* the cubelet that shows sticker i of the face
CubeletOf(face, i) == CHOOSE p \in Cubelets : OnFace(face, p) /\ GridPositionOf(face, p) = i

\* for a rigid quarter turn of the layer highlighted for the face: the
\* sticker each sticker comes from.  A sticker of a cubelet of the layer comes
\* from the place the turn takes it from, every other sticker stays
StickerSource ==
    [face \in Faces |->
        [k \in FaceKeySet |->
            [n \in 1..9 |->
                LET p == CubeletOf(k, n - 1)
                IN IF shouldHighlightCubelet(p[1], p[2], p[3], face)
                   THEN LET from == CHOOSE j \in FaceKeySet :
                                        FaceNormal[j] = TurnBack(face, FaceNormal[k])
                        IN <<from, GridPositionOf(from, TurnBack(face, p)) + 1>>
                   ELSE <<k, n>>]]]

\* the cube after that turn
RigidTurn(s, face) ==
    LET source == StickerSource[face]
    IN [k \in FaceKeySet |-> [n \in 1..9 |-> s[source[k][n][1]][source[k][n][2]]]]

\* the stickers on the cubelets highlighted for the face, but for its center
LayerStickers ==
    [face \in Faces |->
        {x \in FaceKeySet \X (1..9) :
            LET p == CubeletOf(x[1], x[2] - 1)
            IN /\ shouldHighlightCubelet(p[1], p[2], p[3], face)
               /\ Cardinality({c \in 1..3 : p[c] # 0}) > 1}]

\* the nine cubelets of each face get the indices 0..8, each once
GridOneToOne ==
    \A k \in FaceKeySet :
        /\ {GridPositionOf(k, p) : p \in {q \in Cubelets : OnFace(k, q)}} = 0..8
        /\ Cardinality({q \in Cubelets : OnFace(k, q)}) = 9

\* C27: getCubeletGridPosition numbers the nine cubelets of each face 0..8
\* one-to-one, and a quarter turn applied by CubeStateManager moves the
\* stickers as the rigid clockwise quarter turn of the highlighted layer
\* does: the stickers it changes are those of that layer
C27_RigidLayerTurn ==
    /\ GridOneToOne
    /\ (log # <<>> /\ log[Len(log)].rotation = 1 /\ SixFaces(trail[Len(log)])) =>
          LET before == trail[Len(log)]
              after == Value(heap, currentState)
              face == log[Len(log)].face
          IN /\ after = RigidTurn(before, face)
             /\ before = Labelled =>
                   {x \in FaceKeySet \X (1..9) : after[x[1]][x[2]] # before[x[1]][x[2]]}
                       = LayerStickers[face]

\* the back face was turned on the cube of 54 distinct stickers
C27_Witness ==
    /\ Len(log) = 1
    /\ log[1] = [face |-> "B", rotation |-> 1]
    /\ trail[1] = Labelled
    /\ Value(heap, currentState) = RigidTurn(Labelled, "B")
    /\ Value(heap, currentState) # Labelled

\* C28: on a state of six faces of 9 stickers, whatever strings the stickers
\* are, validateCubeState, getCubeStateSummary, KociembaSolver.canSolve and
\* validateCube of CubeVisualization give the same verdict
C28_ValidatorsAgree ==
    (input.fn = "validators" /\ output.calls # <<>> /\ SixFacesOfNine(input.arg)) =>
        \A i, j \in 1..4 : output.ret[i] = output.ret[j]

\* the four validators rejected a cube with a sticker named 'toString'
C28_Witness ==
    /\ input.fn = "validators"
    /\ input.arg = [Solved EXCEPT !.top[1] = "toString"]
    /\ output.ret = <<FALSE, FALSE, FALSE, FALSE>>
====
